---- MODULE Spec2Model ----
(***************************************************************************)
(* Server-side request dispatch core of OS.js (node server):               *)
(*   lib/instance.js  request(), _checkPermission, _vfsCall, _apiCall,     *)
(*                    _staticResponse; the instance descriptor, init,      *)
(*                    run, destroy and the getters                         *)
(*   lib/auth.js      checkPermission, hasGroup                            *)
(*   modules/auth/mysql.js  checkSession, checkPermission, initSession     *)
(*                                                                         *)
(* Strings that the code takes apart (virtual paths, endpoints, request    *)
(* paths) are sequences of lexemes, e.g. "home:///a" is                    *)
(* <<"home", ":", "/", "/", "/", "a">>.                                    *)
(***************************************************************************)
EXTENDS Integers, Sequences, FiniteSets, TLC

VARIABLES session, req, log, resp, instance, frozen, boot, server, children, procs,
          authenticator, pure, files

vars ==
  <<session, req, log, resp, instance, frozen, boot, server, children, procs,
    authenticator, pure, files>>

\* the state of request handling and the state built by init
reqVars == <<session, req, log, resp>>

\* children is the process-wide list of forked helpers, procs the state of
\* every process ever forked, authenticator the state of the loaded module
childVars == <<children, procs, authenticator>>

\* pure is a call of one of the library functions by itself: its arguments
\* and, once it returned, its result
libVars == <<pure, files>>

\* files is the directory behind the home mount: for each path whether
\* it was never created, is present, or was deleted
bootVars == <<instance, frozen, boot, server, childVars, libVars>>

(***************************************************************************)
(* Bounds                                                                  *)
(***************************************************************************)
\* deepest directory level, below a package's directory, of a requested asset
MaxDepth == 2

Reqs == {1, 2}

Clients == {"c1"}

(***************************************************************************)
(* JavaScript values                                                       *)
(***************************************************************************)
Undefined == [t |-> "undefined"]

JStr(s) == [t |-> "str", v |-> s]

JArr(a) == [t |-> "arr", v |-> a]

JBool(b) == [t |-> "bool", v |-> b]

JNum(n) == [t |-> "num", v |-> n]

JHttp(c) == [t |-> "http", v |-> c]

JInstance == [t |-> "instance"]

\* ToBoolean
Truthy(x) ==
  CASE x.t = "undefined" -> FALSE
    [] x.t = "null" -> FALSE
    [] x.t = "bool" -> x.v
    [] x.t = "num" -> x.v # 0
    [] x.t = "str" -> x.v # ""
    [] OTHER -> TRUE

\* a === b for a string a: arrays and objects are never === to a string
StrictEqStr(a, b) == b.t = "str" /\ a = b.v

\* arr.indexOf(x) !== -1 for an array arr of strings
IndexOfFound(arr, x) == \E i \in 1..Len(arr) : StrictEqStr(arr[i], x)

(***************************************************************************)
(* Lexeme strings                                                          *)
(***************************************************************************)
RECURSIVE FirstSep(_, _)
\* index of the first "://" in q at or after i, 0 when there is none
FirstSep(q, i) ==
  IF i + 2 > Len(q) THEN 0
  ELSE IF q[i] = ":" /\ q[i + 1] = "/" /\ q[i + 2] = "/" THEN i
  ELSE FirstSep(q, i + 1)

RECURSIVE LastSlash(_, _)
\* index of the last "/" in s at or before i, 0 when there is none
LastSlash(s, i) ==
  IF i < 1 THEN 0
  ELSE IF s[i] = "/" THEN i
  ELSE LastSlash(s, i - 1)

VPath(proto, name) == <<proto, ":", "/", "/", "/", name>>

(***************************************************************************)
(* Configuration (settings.json as loaded into instance.CONFIG)            *)
(***************************************************************************)
DefaultProtocol == <<"home">>

\* CONFIG.vfs.mounts: a mount is a string (a plain directory) or an object
StringMount == [t |-> "string", enabled |-> Undefined, ro |-> Undefined]

ObjectMount(enabled, ro) == [t |-> "object", enabled |-> enabled, ro |-> ro]

Mounts ==
  (<<"home">> :> StringMount) @@
  (<<"osjs">> :> ObjectMount(Undefined, JBool(TRUE))) @@
  (<<"off">> :> ObjectMount(JBool(FALSE), Undefined)) @@
  (<<"shared">> :> ObjectMount(JBool(TRUE), JBool(FALSE))) @@
  (<<"archive">> :> ObjectMount(Undefined, JBool(TRUE)))

\* CONFIG.vfs.groups: protocol -> group name or list of group names
VfsGroups ==
  (<<"shared">> :> JStr("shared")) @@
  (<<"archive">> :> JArr(<<JStr("archive"), JStr("shared")>>))

\* CONFIG.api.groups: method -> group name or list of group names
ApiGroups ==
  (<<"application">> :> JStr("application")) @@
  (<<"curl">> :> JArr(<<JStr("curl"), JStr("net")>>))

\* instance.API: the names registered as functions
ApiMethods == {<<"login">>, <<"logout">>, <<"application">>, <<"curl">>, <<"settings">>}

writeableMap == <<"upload", "write", "delete", "copy", "move", "mkdir">>

(***************************************************************************)
(* Collaborators outside the dispatch core: user store, sessions           *)
(***************************************************************************)
\* the value of session key 'groups': JSON text that parses to an array of
\* strings, or something JSON.parse throws on (key never set)
GroupsJson(list) == [valid |-> TRUE, v |-> list]

NoGroupsJson == [valid |-> FALSE, v |-> <<>>]

NoSession == [username |-> "", groups |-> NoGroupsJson]

Pkg(repo, name) == <<repo, "/", name>>

\* users known to the Storage / Authenticator backends
Users ==
  [root  |-> [password |-> "pw", groups |-> GroupsJson(<<"admin">>),
              blacklist |-> JArr(<<>>)],
   alice |-> [password |-> "pw", groups |-> GroupsJson(<<"fs">>),
              blacklist |-> JArr(<<>>)],
   bob   |-> [password |-> "pw",
              groups |-> GroupsJson(<<"fs", "shared", "archive", "application", "curl", "net">>),
              blacklist |-> JArr(<<Pkg("default", "Settings")>>)],
   carol |-> [password |-> "pw", groups |-> GroupsJson(<<"fs", "curl">>),
              blacklist |-> JArr(<<Pkg("default", "About")>>)],
   dave  |-> [password |-> "pw", groups |-> GroupsJson(<<"application", "shared">>),
              blacklist |-> JArr(<<>>)],
   guest |-> [password |-> "pw", groups |-> NoGroupsJson,
              blacklist |-> Undefined]]

UserNames == DOMAIN Users

\* Storage.getBlacklist(username) when the query succeeds: the list stored
\* for the user, nothing when none is stored
getBlacklist(username) ==
  IF username \in UserNames THEN Users[username].blacklist ELSE JArr(<<>>)

\* http.session.get('username') is truthy
HasUsername(c) == session[c].username # ""

\* JSON.parse(http.session.get('groups')) || [], [] when parsing throws
SessionGroups(c) ==
  IF session[c].groups.valid THEN session[c].groups.v ELSE <<>>

(***************************************************************************)
(* lib/auth.js                                                             *)
(***************************************************************************)
\* hasGroup without the admin shortcut
hasGroup_NoAdmin(http, groupList, all) ==
  IF groupList.t # "arr" \/ Len(groupList.v) = 0 THEN TRUE
  ELSE
    LET userGroups == IF http.t = "http" THEN SessionGroups(http.v) ELSE <<>>
        has(name) == IndexOfFound(userGroups, name)
    IN  IF all.t = "undefined" \/ Truthy(all)
        THEN \A i \in 1..Len(groupList.v) : has(groupList.v[i])
        ELSE \E i \in 1..Len(groupList.v) : has(groupList.v[i])

\* hasGroup(http, groupList, all); http is whatever object the caller passed
hasGroup(http, groupList, all) ==
  IF groupList.t # "arr" \/ Len(groupList.v) = 0 THEN TRUE
  ELSE
    LET userGroups == IF http.t = "http" THEN SessionGroups(http.v) ELSE <<>>
        has(name) == IndexOfFound(userGroups, name)
    IN  IF \E i \in 1..Len(userGroups) : userGroups[i] = "admin" THEN TRUE
        ELSE IF all.t = "undefined" \/ Truthy(all)
             THEN \A i \in 1..Len(groupList.v) : has(groupList.v[i])
             ELSE \E i \in 1..Len(groupList.v) : has(groupList.v[i])

\* the path string of a VFS argument object that parseVirtualPath resolves
ArgsQuery(args) ==
  IF "path" \in DOMAIN args THEN args["path"]
  ELSE IF "src" \in DOMAIN args THEN args["src"]
  ELSE <<>>

\* a split that leaves the slashes of "://" in the path
parseVirtualPath_KeepSlashes(query) ==
  LET i == FirstSep(query, 1)
  IN  IF i = 0 THEN [protocol |-> DefaultProtocol, path |-> query]
      ELSE [protocol |-> SubSeq(query, 1, i - 1),
            path |-> SubSeq(query, i + 1, Len(query))]

\* vfs.parseVirtualPath: split at the first "://", default scheme otherwise
parseVirtualPath(query) ==
  LET i == FirstSep(query, 1)
  IN  IF i = 0 THEN [protocol |-> DefaultProtocol, path |-> query]
      ELSE [protocol |-> SubSeq(query, 1, i - 1),
            path |-> SubSeq(query, i + 3, Len(query))]

\* lib.auth.checkPermission: const groups = instance.CONFIG.api.groups
ApiGroupTable == instance.CONFIG.api.groups

\* checkApiPermission that looks every type up in the method table
checkApiPermission_NoFs(c, type, options) ==
  LET checks ==
        IF options.method # <<>> /\ options.method \in DOMAIN ApiGroupTable
        THEN JArr(<<ApiGroupTable[options.method]>>)
        ELSE JArr(<<>>)
  IN  hasGroup(JHttp(c), checks, Undefined)

\* checkApiPermission: the promise resolves (TRUE) or rejects (FALSE)
checkApiPermission(c, type, options) ==
  LET checks ==
        IF type = "fs" THEN JArr(<<JStr("fs")>>)
        ELSE IF options.method # <<>> /\ options.method \in DOMAIN ApiGroupTable
             THEN JArr(<<ApiGroupTable[options.method]>>)
             ELSE JArr(<<>>)
  IN  hasGroup(JHttp(c), checks, Undefined)

\* _check without the read-only rule
MountCheck_NoReadOnly(c, options) ==
  LET parsed == parseVirtualPath(ArgsQuery(options.args))
      mount == IF parsed.protocol \in DOMAIN Mounts
               THEN Mounts[parsed.protocol] ELSE Undefined
  IN  IF mount.t = "object" /\ mount.enabled = JBool(FALSE)
      THEN FALSE
      ELSE IF parsed.protocol \in DOMAIN VfsGroups
              /\ ~hasGroup(JInstance, JHttp(c), VfsGroups[parsed.protocol])
           THEN FALSE
           ELSE TRUE

\* _check without the enabled rule
MountCheck_NoEnabled(c, options) ==
  LET parsed == parseVirtualPath(ArgsQuery(options.args))
      mount == IF parsed.protocol \in DOMAIN Mounts
               THEN Mounts[parsed.protocol] ELSE Undefined
      isWrite == \E i \in 1..Len(writeableMap) : options.method = <<writeableMap[i]>>
  IN  IF mount.t = "object" /\ mount.ro = JBool(TRUE) /\ isWrite
      THEN FALSE
      ELSE IF parsed.protocol \in DOMAIN VfsGroups
              /\ ~hasGroup(JInstance, JHttp(c), VfsGroups[parsed.protocol])
           THEN FALSE
           ELSE TRUE

\* checkMountPermission._check
MountCheck(c, options) ==
  LET parsed == parseVirtualPath(ArgsQuery(options.args))
      mount == IF parsed.protocol \in DOMAIN Mounts
               THEN Mounts[parsed.protocol] ELSE Undefined
      isWrite == \E i \in 1..Len(writeableMap) : options.method = <<writeableMap[i]>>
  IN  IF mount.t = "object"
         /\ (mount.enabled = JBool(FALSE) \/ (mount.ro = JBool(TRUE) /\ isWrite))
      THEN FALSE
      ELSE IF parsed.protocol \in DOMAIN VfsGroups
              /\ ~hasGroup(JInstance, JHttp(c), VfsGroups[parsed.protocol])
           THEN FALSE
           ELSE TRUE

\* checkMountPermission: resolves (TRUE) or rejects (FALSE)
checkMountPermission(c, type, options) ==
  IF type = "fs" THEN MountCheck(c, options) ELSE TRUE

\* indexOf(...) > 0 in place of !== -1: the first entry is never found
Blacklisted_SkipFirst(blacklist, options) ==
  /\ Truthy(blacklist)
  /\ \E i \in 2..Len(blacklist.v) : blacklist.v[i] = options.path

\* checkPackagePermission's then-branch:
\* blacklist && blacklist.indexOf(options.path) !== -1
Blacklisted(blacklist, options) ==
  /\ Truthy(blacklist)
  /\ \E i \in 1..Len(blacklist.v) : blacklist.v[i] = options.path

(***************************************************************************)
(* lib/instance.js registerPackages: the manifest and what _load does      *)
(* with each package                                                       *)
(***************************************************************************)
\* what require(check) returns: a module with an api object, one with a
\* register function (the old API), or neither, and the method names
Module(kind, methods) == [kind |-> kind, methods |-> methods]

\* the method names the packages register
PackageMethods == {<<"broadway">>, <<"pty">>}

\* packages.json: the manifest of each distribution
PackagesJson(dist) ==
  [dist |-> dist,
   packages |->
     <<[path |-> Pkg("default", "Settings"), type |-> "application",
        enabled |-> Undefined, hasIndex |-> TRUE, spawn |-> Undefined,
        exports |-> Module("none", {})],
       [path |-> Pkg("default", "About"), type |-> "application",
        enabled |-> Undefined, hasIndex |-> TRUE, spawn |-> JBool(TRUE),
        exports |-> Module("none", {})],
       [path |-> Pkg("default", "Broadway"), type |-> "extension",
        enabled |-> Undefined, hasIndex |-> TRUE, spawn |-> JBool(TRUE),
        exports |-> Module("api", {<<"broadway">>})],
       [path |-> Pkg("default", "Pty"), type |-> "extension",
        enabled |-> JBool(TRUE), hasIndex |-> TRUE, spawn |-> JBool(TRUE),
        exports |-> Module("register", {<<"pty">>})],
       [path |-> Pkg("default", "Tunnel"), type |-> "extension",
        enabled |-> Undefined, hasIndex |-> TRUE, spawn |-> JBool(TRUE),
        exports |-> Module("none", {})],
       [path |-> Pkg("default", "Quiet"), type |-> "extension",
        enabled |-> Undefined, hasIndex |-> TRUE, spawn |-> JBool(FALSE),
        exports |-> Module("none", {})],
       [path |-> Pkg("default", "Plain"), type |-> "extension",
        enabled |-> Undefined, hasIndex |-> TRUE, spawn |-> Undefined,
        exports |-> Module("none", {})],
       [path |-> Pkg("default", "Off"), type |-> "extension",
        enabled |-> JBool(FALSE), hasIndex |-> TRUE, spawn |-> JBool(TRUE),
        exports |-> Module("none", {})],
       [path |-> Pkg("default", "Bare"), type |-> "extension",
        enabled |-> Undefined, hasIndex |-> FALSE, spawn |-> JBool(TRUE),
        exports |-> Module("none", {})]>>]

\* what _load's forEach works on: the forked processes, the list children,
\* instance.API and the names in it that are bound to an adapter
LoadState(ps, ch, api) == [procs |-> ps, children |-> ch, api |-> api, adapted |-> {}]

\* a forked helper process: the package it serves and its state
Proc(pn) == [pkg |-> pn, state |-> "running"]

\* _launchSpawners that forks without recording the child
launchSpawners_Untracked(pn, metadata, st) ==
  IF Truthy(metadata.spawn)
  THEN [st EXCEPT !.procs = Append(@, Proc(pn))]
  ELSE st

\* _launchSpawners(pn, module, metadata): children.push(_child.fork(...));
\* st holds the processes forked so far and the list children
launchSpawners(pn, metadata, st) ==
  IF Truthy(metadata.spawn)
  THEN [st EXCEPT !.procs = Append(@, Proc(pn)),
                  !.children = Append(@, Len(st.procs) + 1)]
  ELSE st

\* _registerExtension(module): instance.API[k] is module.api[k] or, for a
\* module of the old API, an adapter function(http, resolve, reject, args)
\* around backAPI[k]; st.adapted holds the names bound to an adapter
registerExtension(module, st) ==
  IF module.kind = "api"
  THEN [st EXCEPT !.api = @ \cup module.methods, !.adapted = @ \ module.methods]
  ELSE IF module.kind = "register"
       THEN [st EXCEPT !.api = @ \cup module.methods,
                       !.adapted = @ \cup module.methods]
       ELSE st

RECURSIVE LoadPackages(_, _, _)
\* _load's forEach over the first i manifest entries
LoadPackages(packages, i, st) ==
  IF i = 0 THEN st
  ELSE LET metadata == packages[i]
           before == LoadPackages(packages, i - 1, st)
       IN  IF metadata.enabled # JBool(FALSE) /\ metadata.hasIndex
              /\ metadata.type = "extension"
           THEN launchSpawners(metadata.path, metadata,
                               registerExtension(metadata.exports, before))
           ELSE before

\* the names of instance.API bound to an adapter of the old API
Adapted(inst) ==
  LET packages == inst.PACKAGES.packages
  IN  LoadPackages(packages, Len(packages), LoadState(<<>>, <<>>, {})).adapted

(***************************************************************************)
(* Requests as the HTTP layer hands them to request(http)                  *)
(***************************************************************************)
NoData == [k \in {} |-> <<>>]

NoOptions == [method |-> <<>>, args |-> NoData, path |-> <<>>]

Protocols == {"home", "osjs", "off", "shared", "archive", "nope"}

VfsPaths == {VPath(p, "a") : p \in Protocols} \cup {<<"/", "a">>}

DestPaths == {VPath("home", "b"), VPath("osjs", "b")}

PathOps == {"exists", "read", "write", "mkdir", "delete", "scandir", "fileinfo", "upload"}

PairOps == {"copy", "move"}

HttpMethods == {"GET", "POST"}

RECURSIVE Dirs(_)
\* k directory levels: d/d/.../
Dirs(k) == IF k = 0 THEN <<>> ELSE <<"d", "/">> \o Dirs(k - 1)

PackageNames == {"Settings", "About"}

\* /packages/default/<name>/main.js and the same file k levels deeper
AssetPaths ==
  {<<"/", "packages", "/">> \o Pkg("default", n) \o <<"/">> \o Dirs(k) \o <<"main.js">> :
     n \in PackageNames, k \in 0..MaxDepth}

StaticPaths ==
  AssetPaths \cup {<<"/">>, <<"/", "osjs.js">>, <<"/", "packages", "/", "x.js">>}

Http(m, isfs, isapi, endpoint, path, data) ==
  [method |-> m, isfs |-> isfs, isapi |-> isapi, endpoint |-> endpoint,
   path |-> path, data |-> data]

FsRequests ==
  {Http(m, TRUE, FALSE, <<op>>, <<>>, ("path" :> p)) :
     m \in HttpMethods, op \in PathOps, p \in VfsPaths}
  \cup
  {Http("POST", TRUE, FALSE, <<op>>, <<>>, ("src" :> p) @@ ("dest" :> d)) :
     op \in PairOps, p \in VfsPaths, d \in DestPaths}
  \cup
  {Http("GET", TRUE, FALSE, <<"get", "/">> \o p, <<>>, NoData) : p \in VfsPaths}
  \cup
  {Http("GET", TRUE, FALSE, <<"get", "/">> \o VPath("home", "a"), <<>>,
        ("path" :> VPath("off", "a")))}

LoginRequests ==
  {Http("POST", FALSE, TRUE, <<"login">>, <<>>,
        ("username" :> u) @@ ("password" :> pw)) :
     u \in UserNames \cup {"nobody"}, pw \in {"pw", "bad"}}

ApiRequests ==
  LoginRequests
  \cup
  {Http("POST", FALSE, TRUE, e, <<>>, NoData) :
     e \in (ApiMethods \ {<<"login">>}) \cup PackageMethods \cup {<<"doesNotExist">>}}
  \cup
  {Http("GET", FALSE, TRUE, <<"application">>, <<"/", "API", "/", "application">>, NoData),
   Http("POST", FALSE, TRUE, <<"settings">>, <<>>, ("path" :> VPath("off", "a")))}

StaticRequests ==
  {Http("GET", FALSE, FALSE, <<>>, p, NoData) : p \in StaticPaths}
  \cup
  {Http("POST", FALSE, FALSE, <<>>, <<"/">>, NoData)}

Requests == FsRequests \cup ApiRequests \cup StaticRequests

\* no transport operation or handler was called
NoCall == [method |-> <<>>, args |-> NoData]

\* the values a transport operation or an API handler resolves with
Results == {"value", "other"}

\* the authenticator's checkPermission hook has not settled
NoHook == [settled |-> "none", v |-> Undefined]

Idle ==
  [pc |-> "idle", client |-> "", http |-> Http("", FALSE, FALSE, <<>>, <<>>, NoData),
   type |-> "", options |-> NoOptions, username |-> "", ok |-> FALSE,
   call |-> NoCall, result |-> "none", hook |-> NoHook]

(***************************************************************************)
(* Responses: http.respond.json / .error / .file                           *)
(***************************************************************************)
Json(status, error, result) ==
  [kind |-> "json", status |-> status, error |-> error, result |-> result]

ErrorPage(status, error) ==
  [kind |-> "error", status |-> status, error |-> error, result |-> "none"]

File(path) ==
  [kind |-> "file", status |-> 200, error |-> "null", result |-> "stream"]

\* _rejectResponse(err): always status 403
rejectResponse(q, err) ==
  IF ~q.http.isfs /\ ~q.http.isapi THEN ErrorPage(403, err)
  ELSE Json(403, err, "false")

\* a response that reports success without the result
resolveResponse_Boolean(result) == Json(200, "null", "true")

\* _resolveResponse(result): the default status of respond.json
resolveResponse(result) == Json(200, "null", result)

NoSessionMsg == "You have no OS.js Session, please log in!"

(***************************************************************************)
(* lib/instance.js request(http)                                           *)
(***************************************************************************)
\* http.endpoint.match(/^get\//)
IsGetRoute(endpoint) == Len(endpoint) >= 2 /\ endpoint[1] = "get" /\ endpoint[2] = "/"

\* http.endpoint.replace(/(^get\/)?/, '')
StripGet(endpoint) ==
  IF IsGetRoute(endpoint) THEN SubSeq(endpoint, 3, Len(endpoint)) ELSE endpoint

NoMatch == [matched |-> FALSE, g1 |-> <<>>, g2 |-> <<>>]

\* http.path.match(/^\/?packages\/(.*\/.*)\/(.*)/), greedy
pmatch(path) ==
  LET p == IF Len(path) >= 1 /\ path[1] = "/" THEN Tail(path) ELSE path
  IN  IF Len(p) >= 2 /\ p[1] = "packages" /\ p[2] = "/"
      THEN LET R == SubSeq(p, 3, Len(p))
               j == LastSlash(R, Len(R))
           IN  IF j > 0 /\ LastSlash(R, j - 1) > 0
               THEN [matched |-> TRUE, g1 |-> SubSeq(R, 1, j - 1),
                     g2 |-> SubSeq(R, j + 1, Len(R))]
               ELSE NoMatch
      ELSE NoMatch

\* skip for every API method
Skip_AnyApi(type, options) == type = "api"

\* no method is exempt
Skip_Never(type, options) == FALSE

\* _checkPermission: skip is true for the API method login only
Skip(type, options) == type = "api" /\ options.method = <<"login">>

\* vfs.request resolves the path's mount before it calls a transport
VfsResolve(args) ==
  LET parsed == parseVirtualPath(ArgsQuery(args))
  IN  IF parsed.protocol \notin DOMAIN Mounts THEN "UnknownProtocol"
      ELSE IF Mounts[parsed.protocol].enabled = JBool(FALSE) THEN "MountDisabled"
      ELSE "ok"

InFlight(r) == req[r].pc \notin {"idle", "Responded", "Rejected", "Unanswered"}

\* the response kept in one variable shared by all requests
Step_SharedSink(r, q, events, responses) ==
  /\ req' = [req EXCEPT ![r] = q]
  /\ log' = [log EXCEPT ![r] = @ \o events]
  /\ resp' = [resp EXCEPT ![1] = @ \o responses]

Step(r, q, events, responses) ==
  /\ req' = [req EXCEPT ![r] = q]
  /\ log' = [log EXCEPT ![r] = @ \o events]
  /\ resp' = [resp EXCEPT ![r] = @ \o responses]

\* the first step of _checkPermission(type, options), called from q's handler
CheckPermissionCall(r, q, type, options) ==
  IF Skip(type, options)
  THEN Step(r, [q EXCEPT !.pc = "authorized", !.type = type, !.options = options],
            <<>>, <<>>)
  ELSE Step(r, [q EXCEPT !.pc = "checkSession", !.type = type, !.options = options,
                         !.ok = HasUsername(q.client)],
            <<"checkSession">>, <<>>)

\* request(http) is entered: auth.initSession(http) is called
Receive(r) ==
  /\ server = "listening"
  /\ \A s \in Reqs : req[s].pc = "idle"
  /\ \E c \in Clients, h \in Requests :
       /\ req' = [req EXCEPT ![r] = [Idle EXCEPT !.pc = "initSession",
                                                !.client = c, !.http = h]]
       /\ log' = [log EXCEPT ![r] = <<"initSession">>]
       /\ resp' = [resp EXCEPT ![r] = <<>>]
  /\ UNCHANGED <<session, bootVars>>

\* _vfsCall: var method
vfsMethod(http) ==
  IF IsGetRoute(http.endpoint) THEN <<"read">> ELSE StripGet(http.endpoint)

\* var args that stays http.data on the get route
vfsArgs_KeepData(http) == http.data

\* _vfsCall: var args
vfsArgs(http) ==
  IF IsGetRoute(http.endpoint) THEN ("path" :> StripGet(http.endpoint)) ELSE http.data

\* _vfsCall
vfsCall(r) ==
  LET q == req[r]
  IN  CheckPermissionCall(r, q, "fs",
        [method |-> vfsMethod(q.http), args |-> vfsArgs(q.http), path |-> <<>>])

\* the handler called without waiting for _checkPermission
apiCall_HandlerFirst(r) ==
  LET q == req[r]
  IN  Step(r, [q EXCEPT !.pc = "handler", !.type = "api",
                        !.options = [method |-> q.http.endpoint, args |-> NoData,
                                     path |-> <<>>],
                        !.call = [method |-> q.http.endpoint, args |-> q.http.data]],
           <<"handler">>, <<>>)

\* _apiCall
apiCall(r) ==
  LET q == req[r]
  IN  CheckPermissionCall(r, q, "api",
        [method |-> q.http.endpoint, args |-> NoData, path |-> <<>>])

\* _staticResponse
staticResponse(r) ==
  LET q == req[r]
      m == pmatch(q.http.path)
  IN  IF m.matched
      THEN CheckPermissionCall(r, q, "package",
             [method |-> <<>>, args |-> NoData, path |-> m.g1])
      ELSE Step(r, [q EXCEPT !.pc = "Responded"], <<"serve">>, <<File(q.http.path)>>)

\* initSession rejected: the then-callback is never called and the promise
\* chain has no rejection handler, so nothing is written to the response
InitSessionFail(r) ==
  /\ req[r].pc = "initSession"
  /\ Step(r, [req[r] EXCEPT !.pc = "Unanswered"], <<"initSession:reject">>, <<>>)
  /\ UNCHANGED <<session, bootVars>>

\* a GET that names a registered method taken as an API call
InitSessionDone_GetIsApi(r) ==
  /\ req[r].pc = "initSession"
  /\ LET q == req[r]
     IN  IF q.http.isfs THEN vfsCall(r)
         ELSE IF q.http.endpoint \in instance.API THEN apiCall(r)
         ELSE IF q.http.method = "GET" THEN staticResponse(r)
         ELSE Step(r, [q EXCEPT !.pc = "Rejected"], <<>>,
                   <<Json(500, "No such API method", "none")>>)
  /\ UNCHANGED <<session, bootVars>>

\* an unregistered method answered through _rejectResponse
InitSessionDone_UnknownDenied(r) ==
  /\ req[r].pc = "initSession"
  /\ LET q == req[r]
     IN  IF q.http.method = "GET"
         THEN IF q.http.isfs THEN vfsCall(r) ELSE staticResponse(r)
         ELSE IF q.http.isfs THEN vfsCall(r)
              ELSE IF q.http.endpoint \in instance.API THEN apiCall(r)
                   ELSE Step(r, [q EXCEPT !.pc = "Rejected"], <<>>,
                             <<rejectResponse(q, "No such API method")>>)
  /\ UNCHANGED <<session, bootVars>>

\* initSession resolved: the request is classified and its route entered
InitSessionDone(r) ==
  /\ req[r].pc = "initSession"
  /\ LET q == req[r]
     IN  IF q.http.method = "GET"
         THEN IF q.http.isfs THEN vfsCall(r) ELSE staticResponse(r)
         ELSE IF q.http.isfs THEN vfsCall(r)
              ELSE IF q.http.endpoint \in instance.API THEN apiCall(r)
                   ELSE Step(r, [q EXCEPT !.pc = "Rejected"], <<>>,
                             <<Json(500, "No such API method", "none")>>)
  /\ UNCHANGED <<session, bootVars>>

\* checkSession settled; a rejection is answered and the chain goes on
CheckSessionDone_ContinueOnReject(r) ==
  /\ req[r].pc = "checkSession"
  /\ LET q == req[r]
     IN  IF q.ok
         THEN Step(r, [q EXCEPT !.pc = "authHook",
                                !.username = session[q.client].username],
                   <<"checkSession:resolve", "auth.checkPermission">>, <<>>)
         ELSE Step(r, [q EXCEPT !.pc = "authorized"], <<"checkSession:reject">>,
                   <<rejectResponse(q, NoSessionMsg)>>)
  /\ UNCHANGED <<session, bootVars>>

\* lib.auth.checkPermission's first statements, outside any promise:
\* instance.CONFIG.api.groups throws a TypeError when the configuration has
\* no api section
PrologueThrows == instance.CONFIG.api = Undefined

\* checkSession settled; on success lib.auth.checkPermission is entered and
\* calls the authenticator's checkPermission hook. When its first statements
\* throw, the executor of _checkPermission's second promise throws, the
\* catch at the end of _checkPermission answers through _rejectResponse and
\* the promise _checkPermission returned resolves
CheckSessionDone(r) ==
  /\ req[r].pc = "checkSession"
  /\ LET q == req[r]
     IN  IF q.ok
         THEN IF PrologueThrows
              THEN Step(r, [q EXCEPT !.pc = "authorized"],
                        <<"checkSession:resolve", "checkPermission:throw">>,
                        <<rejectResponse(q, "TypeError")>>)
              ELSE Step(r, [q EXCEPT !.pc = "authHook",
                                     !.username = session[q.client].username],
                        <<"checkSession:resolve", "auth.checkPermission">>, <<>>)
         ELSE Step(r, [q EXCEPT !.pc = "Rejected"], <<"checkSession:reject">>,
                   <<rejectResponse(q, NoSessionMsg)>>)
  /\ UNCHANGED <<session, bootVars>>

\* what the checkPermission hook of an authenticator module can settle with:
\* resolved with true or another truthy value, with nothing, with a defined
\* falsy value, or rejected
AnyHook ==
  {[settled |-> "resolve", v |-> x] :
     x \in {JBool(TRUE), JNum(1), Undefined, JBool(FALSE), JNum(0), [t |-> "null"]}}
  \cup {[settled |-> "reject", v |-> JStr("Hook denied")]}

\* the hook of the module instance.AUTH names; the one of the mysql
\* authenticator does resolve(true)
HookOutcomes ==
  IF instance.AUTH = "mysql" THEN {[settled |-> "resolve", v |-> JBool(TRUE)]} ELSE AnyHook

\* a hook that resolved with nothing counts as falsy
AuthHookDone_UndefinedSkips(r) ==
  /\ req[r].pc = "authHook"
  /\ \E hook \in HookOutcomes :
       LET q == [req[r] EXCEPT !.hook = hook]
       IN  IF hook.settled = "reject"
           THEN Step(r, [q EXCEPT !.pc = "Rejected"], <<>>,
                     <<rejectResponse(q, hook.v.v)>>)
           ELSE IF Truthy(hook.v)
                THEN Step(r, [q EXCEPT !.pc = "checkApi",
                                       !.ok = checkApiPermission(q.client, q.type,
                                                                 q.options)],
                          <<"checkApiPermission">>, <<>>)
                ELSE Step(r, [q EXCEPT !.pc = "authorized"], <<>>, <<>>)
  /\ UNCHANGED <<session, bootVars>>

\* the authenticator's hook settled. Resolved: checkGroups is true when the
\* hook resolved with undefined; a truthy checkGroups starts
\* checkApiPermission, a falsy one resolves lib.auth.checkPermission at
\* once. Rejected: catch(reject) rejects lib.auth.checkPermission with the
\* hook's reason and _checkPermission answers through _rejectResponse
AuthHookDone(r) ==
  /\ req[r].pc = "authHook"
  /\ \E hook \in HookOutcomes :
       LET q == [req[r] EXCEPT !.hook = hook]
           checkGroups == IF hook.v = Undefined THEN JBool(TRUE) ELSE hook.v
       IN  IF hook.settled = "reject"
           THEN Step(r, [q EXCEPT !.pc = "Rejected"], <<>>,
                     <<rejectResponse(q, hook.v.v)>>)
           ELSE IF Truthy(checkGroups)
                THEN Step(r, [q EXCEPT !.pc = "checkApi",
                                       !.ok = checkApiPermission(q.client, q.type,
                                                                 q.options)],
                          <<"checkApiPermission">>, <<>>)
                ELSE Step(r, [q EXCEPT !.pc = "authorized"], <<>>, <<>>)
  /\ UNCHANGED <<session, bootVars>>

\* checkApiPermission settled; a rejection is answered and the chain goes on
CheckApiDone_ContinueOnReject(r) ==
  /\ req[r].pc = "checkApi"
  /\ LET q == req[r]
     IN  IF q.ok
         THEN Step(r, [q EXCEPT !.pc = "checkMount",
                                !.ok = checkMountPermission(q.client, q.type, q.options)],
                   <<"checkApiPermission:resolve", "checkMountPermission">>, <<>>)
         ELSE Step(r, [q EXCEPT !.pc = "checkMount",
                                !.ok = checkMountPermission(q.client, q.type, q.options)],
                   <<"checkApiPermission:reject", "checkMountPermission">>,
                   <<rejectResponse(q, "Access denied!")>>)
  /\ UNCHANGED <<session, bootVars>>

\* checkApiPermission settled; on success checkMountPermission runs
CheckApiDone(r) ==
  /\ req[r].pc = "checkApi"
  /\ LET q == req[r]
     IN  IF q.ok
         THEN Step(r, [q EXCEPT !.pc = "checkMount",
                                !.ok = checkMountPermission(q.client, q.type, q.options)],
                   <<"checkApiPermission:resolve", "checkMountPermission">>, <<>>)
         ELSE Step(r, [q EXCEPT !.pc = "Rejected"], <<"checkApiPermission:reject">>,
                   <<rejectResponse(q, "Access denied!")>>)
  /\ UNCHANGED <<session, bootVars>>

\* checkPackagePermission that asks for the blacklist whatever the type
CheckMountDone_AnyKind(r) ==
  /\ req[r].pc = "checkMount"
  /\ LET q == req[r]
     IN  IF q.ok
         THEN Step(r, [q EXCEPT !.pc = "getBlacklist"],
                   <<"checkMountPermission:resolve", "checkPackagePermission",
                     "getBlacklist">>, <<>>)
         ELSE Step(r, [q EXCEPT !.pc = "Rejected"], <<"checkMountPermission:reject">>,
                   <<rejectResponse(q, "Access Denied!")>>)
  /\ UNCHANGED <<session, bootVars>>

\* checkMountPermission settled; on success checkPackagePermission runs
CheckMountDone(r) ==
  /\ req[r].pc = "checkMount"
  /\ LET q == req[r]
     IN  IF q.ok
         THEN IF q.type = "package"
              THEN Step(r, [q EXCEPT !.pc = "getBlacklist"],
                        <<"checkMountPermission:resolve", "checkPackagePermission",
                          "getBlacklist">>, <<>>)
              ELSE Step(r, [q EXCEPT !.pc = "authorized"],
                        <<"checkMountPermission:resolve", "checkPackagePermission",
                          "checkPackagePermission:resolve">>, <<>>)
         ELSE Step(r, [q EXCEPT !.pc = "Rejected"], <<"checkMountPermission:reject">>,
                   <<rejectResponse(q, "Access Denied!")>>)
  /\ UNCHANGED <<session, bootVars>>

\* a failed blacklist query lets the request through
GetBlacklistDone_FailOpen(r) ==
  /\ req[r].pc = "getBlacklist"
  /\ LET q == req[r]
     IN  \E settled \in {"resolve", "reject"} :
           IF settled = "reject" \/ ~Blacklisted(getBlacklist(q.username), q.options)
           THEN Step(r, [q EXCEPT !.pc = "authorized"],
                     <<"getBlacklist:" \o settled, "checkPackagePermission:resolve">>, <<>>)
           ELSE Step(r, [q EXCEPT !.pc = "Rejected"],
                     <<"getBlacklist:" \o settled, "checkPackagePermission:reject">>,
                     <<rejectResponse(q, "Access Denied!")>>)
  /\ UNCHANGED <<session, bootVars>>

\* Storage.getBlacklist(username) settled
GetBlacklistDone(r) ==
  /\ req[r].pc = "getBlacklist"
  /\ LET q == req[r]
     IN  \E settled \in {"resolve", "reject"} :
           IF settled = "resolve" /\ ~Blacklisted(getBlacklist(q.username), q.options)
           THEN Step(r, [q EXCEPT !.pc = "authorized"],
                     <<"getBlacklist:resolve", "checkPackagePermission:resolve">>, <<>>)
           ELSE Step(r, [q EXCEPT !.pc = "Rejected"],
                     <<"getBlacklist:" \o settled, "checkPackagePermission:reject">>,
                     <<rejectResponse(q, "Access Denied!")>>)
  /\ UNCHANGED <<session, bootVars>>

\* _checkPermission resolved: the route's then-callback runs
Dispatch(r) ==
  /\ req[r].pc = "authorized"
  /\ LET q == req[r]
     IN  CASE q.type = "fs" ->
                Step(r, [q EXCEPT !.pc = "vfs",
                                  !.call = [method |-> vfsMethod(q.http),
                                            args |-> vfsArgs(q.http)]],
                     IF VfsResolve(vfsArgs(q.http)) = "ok"
                     THEN <<"vfs.request", "transport">> ELSE <<"vfs.request">>,
                     <<>>)
           [] q.type = "api" ->
                Step(r, [q EXCEPT !.pc = "handler",
                                  !.call = [method |-> q.http.endpoint,
                                            args |-> q.http.data]],
                     <<"handler">>, <<>>)
           [] OTHER ->
                Step(r, [q EXCEPT !.pc = "checkSession2", !.ok = HasUsername(q.client)],
                     <<"recheckSession">>, <<>>)
  /\ UNCHANGED <<session, bootVars>>

\* a rejection of vfs.request answered through _resolveResponse
VfsDone_ErrorAsResult(r) ==
  /\ req[r].pc = "vfs"
  /\ LET q == req[r]
         resolved == VfsResolve(q.call.args)
     IN  \E settled \in {"resolve", "reject"} :
           IF resolved = "ok" /\ settled = "resolve"
           THEN \E result \in Results :
                  Step(r, [q EXCEPT !.pc = "Responded", !.result = result], <<>>,
                       <<resolveResponse(result)>>)
           ELSE Step(r, [q EXCEPT !.pc = "Responded", !.result = "false"], <<>>,
                     <<resolveResponse("false")>>)
  /\ UNCHANGED <<session, bootVars>>

\* a failed vfs.request is made again
VfsDone_Retry(r) ==
  /\ req[r].pc = "vfs"
  /\ LET q == req[r]
         resolved == VfsResolve(q.call.args)
     IN  \E settled \in {"resolve", "reject"} :
           IF resolved = "ok" /\ settled = "resolve"
           THEN \E result \in Results :
                  Step(r, [q EXCEPT !.pc = "Responded", !.result = result], <<>>,
                       <<resolveResponse(result)>>)
           ELSE Step(r, [q EXCEPT !.pc = "authorized"], <<>>, <<>>)
  /\ UNCHANGED <<session, bootVars>>

\* vfs.request settled
VfsDone(r) ==
  /\ req[r].pc = "vfs"
  /\ LET q == req[r]
         resolved == VfsResolve(q.call.args)
     IN  \E settled \in {"resolve", "reject"} :
           IF resolved = "ok" /\ settled = "resolve"
           THEN \E result \in Results :
                  Step(r, [q EXCEPT !.pc = "Responded", !.result = result], <<>>,
                       <<resolveResponse(result)>>)
           ELSE Step(r, [q EXCEPT !.pc = "Rejected"], <<>>,
                     <<rejectResponse(q, IF resolved = "ok" THEN "BackendError"
                                          ELSE resolved)>>)
  /\ UNCHANGED <<session, bootVars>>

\* the file is served whatever the second checkSession says
CheckSession2Done_AlwaysServe(r) ==
  /\ req[r].pc = "checkSession2"
  /\ LET q == req[r]
     IN  Step(r, [q EXCEPT !.pc = "Responded"], <<"serve">>, <<File(q.http.path)>>)
  /\ UNCHANGED <<session, bootVars>>

\* the second checkSession of a gated package asset settled
CheckSession2Done(r) ==
  /\ req[r].pc = "checkSession2"
  /\ LET q == req[r]
     IN  IF q.ok
         THEN Step(r, [q EXCEPT !.pc = "Responded"], <<"serve">>, <<File(q.http.path)>>)
         ELSE Step(r, [q EXCEPT !.pc = "Rejected"], <<>>,
                   <<ErrorPage(403, "Access denied")>>)
  /\ UNCHANGED <<session, bootVars>>

(***************************************************************************)
(* modules/auth/mysql.js login and the API handlers                        *)
(***************************************************************************)
\* login(http, data), given that the query and the hash comparison succeed
login(data) ==
  IF data["username"] \notin UserNames THEN "Invalid credentials"
  ELSE IF data["password"] = Users[data["username"]].password THEN "resolve"
  ELSE "Invalid credentials"

\* the session the login handler stores for a user
SessionOf(u) == [username |-> u, groups |-> Users[u].groups]

\* instance.API[http.endpoint](http, http.data) settled. An adapter of the
\* old API takes (http, resolve, reject, args): called with two arguments it
\* has http.data for resolve and nothing for reject and args, and returns
\* no promise; whether the old method calls back with a result or with an
\* error, at once or later, the then-callback of _apiCall ends in a
\* TypeError that its catch hands to _rejectResponse
HandlerDone(r) ==
  /\ req[r].pc = "handler"
  /\ LET q == req[r]
         resolve(result) ==
           Step(r, [q EXCEPT !.pc = "Responded", !.result = result], <<>>,
                <<resolveResponse(result)>>)
         reject(err) ==
           Step(r, [q EXCEPT !.pc = "Rejected"], <<>>, <<rejectResponse(q, err)>>)
     IN  \E settled \in {"resolve", "reject"} :
           CASE q.http.endpoint \in Adapted(instance) ->
                  /\ Step(r, [q EXCEPT !.pc = "Rejected"],
                          <<IF settled = "resolve" THEN "callback(null, res)"
                            ELSE "callback(err)">>,
                          <<rejectResponse(q, "TypeError")>>)
                  /\ UNCHANGED session
             [] q.http.endpoint \notin Adapted(instance) /\ settled = "reject" ->
                  reject("BackendError") /\ UNCHANGED session
             [] settled = "resolve" /\ q.http.endpoint = <<"login">> ->
                  IF login(q.http.data) = "resolve"
                  THEN /\ resolve("userData")
                       /\ session' = [session EXCEPT
                                        ![q.client] = SessionOf(q.http.data["username"])]
                  ELSE reject(login(q.http.data)) /\ UNCHANGED session
             [] settled = "resolve" /\ q.http.endpoint = <<"logout">> ->
                  /\ resolve("true")
                  /\ session' = [session EXCEPT ![q.client] = NoSession]
             [] OTHER ->
                  (\E result \in Results : resolve(result)) /\ UNCHANGED session
  /\ UNCHANGED bootVars

\* the request context is dropped once its response was sent or its
\* connection was given up
Retire(r) ==
  /\ req[r].pc \in {"Responded", "Rejected", "Unanswered"}
  /\ req' = [req EXCEPT ![r] = Idle]
  /\ log' = [log EXCEPT ![r] = <<>>]
  /\ resp' = [resp EXCEPT ![r] = <<>>]
  /\ UNCHANGED <<session, bootVars>>

(***************************************************************************)
(* lib/instance.js: the instance descriptor, init, run, destroy, getters   *)
(***************************************************************************)
\* instance.PORT before configuration is loaded
DefaultPort == 8000

\* the port the test suite passes to init
TestPort == 8008

\* settings.json as JSON.parse returns it
SettingsJson ==
  [http |-> [port |-> DefaultPort, authenticator |-> "mysql", storage |-> "mysql"],
   api |-> [groups |-> ApiGroups],
   vfs |-> [mounts |-> Mounts, groups |-> VfsGroups]]

\* the opts of init(opts): each option given or undefined
Opts ==
  {[PORT |-> Undefined, DIST |-> Undefined],
   [PORT |-> JNum(TestPort), DIST |-> JStr("dist-dev")]}

\* const instance = {...}
InitialInstance ==
  [PORT |-> DefaultPort, DIST |-> "dist", CONFIG |-> <<>>, API |-> {}, VFS |-> <<>>,
   PACKAGES |-> <<>>, AUTH |-> "null", STORAGE |-> "null",
   DIRS |-> [root |-> "root", modules |-> "modules", server |-> "server",
             packages |-> "/src/packages"]]

\* loadConfiguration(opts): CONFIG, PORT, the options that override, DIRS
loadConfiguration(inst, opts) ==
  LET port == IF SettingsJson.http.port # 0 THEN SettingsJson.http.port ELSE inst.PORT
  IN  [inst EXCEPT
         !.CONFIG = SettingsJson,
         !.PORT = IF opts.PORT.t # "undefined" THEN opts.PORT.v ELSE port,
         !.DIST = IF opts.DIST.t # "undefined" THEN opts.DIST.v ELSE @,
         !.DIRS = [@ EXCEPT !.packages = "root/src/packages"]]

\* loadAPI: every method of every API module
loadAPI(inst) == [inst EXCEPT !.API = @ \cup ApiMethods]

\* loadAuth: the module CONFIG.http.authenticator names
loadAuth(inst) == [inst EXCEPT !.AUTH = inst.CONFIG.http.authenticator]

\* loadStorage: the module CONFIG.http.storage names
loadStorage(inst) == [inst EXCEPT !.STORAGE = inst.CONFIG.http.storage]

\* loadVFS: every transport module is pushed
loadVFS(inst) == [inst EXCEPT !.VFS = @ \o <<"filesystem", "http">>]

\* registerPackages: PACKAGES is the manifest of instance.DIST
registerPackages(inst) ==
  LET packages == PackagesJson(inst.DIST).packages
  IN  [inst EXCEPT
         !.API = LoadPackages(packages, Len(packages), LoadState(<<>>, <<>>, inst.API)).api,
         !.PACKAGES = PackagesJson(inst.DIST)]

\* the chain with loadAuth ahead of loadAPI
InitChain_AuthFirst ==
  <<"loadConfiguration", "loadAuth", "loadAPI", "loadStorage", "loadVFS", "http.init",
    "registerPackages">>

\* init: loadConfiguration(opts).then(loadAPI).then(loadAuth)...
InitChain ==
  <<"loadConfiguration", "loadAPI", "loadAuth", "loadStorage", "loadVFS", "http.init",
    "registerPackages">>

\* the instance after a step of the chain resolved
Loaded(step, inst, opts) ==
  CASE step = "loadConfiguration" -> loadConfiguration(inst, opts)
    [] step = "loadAPI" -> loadAPI(inst)
    [] step = "loadAuth" -> loadAuth(inst)
    [] step = "loadStorage" -> loadStorage(inst)
    [] step = "loadVFS" -> loadVFS(inst)
    [] step = "registerPackages" -> registerPackages(inst)
    [] OTHER -> inst

\* what a loader's assignments leave in the instance: once Object.freeze
\* was applied to it, an assignment to one of its properties is dropped
\* without an error (the file is not in strict mode), while the objects it
\* refers to (API, VFS, DIRS) are not frozen and still change
Assigned(step, inst, opts, isFrozen) ==
  LET loaded == Loaded(step, inst, opts)
  IN  IF isFrozen
      THEN [inst EXCEPT !.API = loaded.API, !.VFS = loaded.VFS, !.DIRS = loaded.DIRS]
      ELSE loaded

\* loadAuth / loadStorage: const name = instance.CONFIG.http.authenticator
\* throws a TypeError when CONFIG is still the empty object
ThrowsAtStart(step, inst) ==
  step \in {"loadAuth", "loadStorage"} /\ "http" \notin DOMAIN inst.CONFIG

NoBoot ==
  [pc |-> 0, opts |-> [PORT |-> Undefined, DIST |-> Undefined], started |-> <<>>,
   done |-> <<>>, outcome |-> "none", failed |-> "", cause |-> ""]

\* init(opts) is called: the first step of the chain starts
init ==
  /\ boot.outcome = "none"
  /\ \E opts \in Opts :
       boot' = [NoBoot EXCEPT !.pc = 1, !.opts = opts, !.started = <<InitChain[1]>>,
                             !.outcome = "pending"]
  /\ UNCHANGED <<instance, frozen, server, childVars, libVars, reqVars>>

Failure(cause, thrown) == [cause |-> cause, thrown |-> thrown]

\* the ways a step of the chain fails. A loader calls reject(err) for the
\* error its readFile / readdir callback is handed, and an exception
\* thrown inside a promise executor (loadAuth, loadStorage) rejects that
\* promise; an exception thrown inside a readFile / readdir callback
\* (JSON.parse, require) is thrown outside every promise
StepFailures(step) ==
  CASE step = "loadConfiguration" ->
         {Failure("settings.json cannot be read", FALSE),
          Failure("settings.json is not valid JSON", TRUE)}
    [] step = "loadAPI" ->
         {Failure("readdir failed", FALSE), Failure("module fails to load", TRUE)}
    [] step = "loadAuth" -> {Failure("module fails to load", FALSE)}
    [] step = "loadStorage" -> {Failure("module fails to load", FALSE)}
    [] step = "loadVFS" ->
         {Failure("readdir failed", FALSE), Failure("module fails to load", TRUE)}
    [] step = "registerPackages" ->
         {Failure("packages.json cannot be read", FALSE),
          Failure("packages.json is not valid JSON", TRUE),
          Failure("module fails to load", TRUE)}
    [] OTHER -> {Failure("http.init rejected", FALSE)}

\* the running step of the chain settled: on success the next step starts
\* or, after the last, init resolves with Object.freeze(instance); on a
\* failure that rejects the step's promise the catch of the chain rejects
\* init; an exception thrown in a callback of the file system reaches no
\* promise: the step's promise and init stay pending for good ("uncaught")
InitStepDone ==
  /\ boot.outcome = "pending"
  /\ LET step == InitChain[boot.pc]
         last == boot.pc = Len(InitChain)
     IN  \E settled \in IF ThrowsAtStart(step, instance)
                         THEN {Failure("TypeError", FALSE)}
                         ELSE {Failure("", FALSE)} \cup StepFailures(step) :
           IF settled.cause = ""
           THEN /\ instance' = Assigned(step, instance, boot.opts, "instance" \in frozen)
                /\ frozen' = frozen
                             \cup (IF step = "registerPackages" /\ "instance" \notin frozen
                                   THEN {"PACKAGES"} ELSE {})
                             \cup (IF last THEN {"instance"} ELSE {})
                /\ server' = IF step = "http.init" THEN "created" ELSE server
                /\ authenticator' = IF step = "loadAuth" THEN "loaded" ELSE authenticator
                /\ IF step = "registerPackages"
                   THEN LET packages == PackagesJson(instance.DIST).packages
                            st == LoadPackages(packages, Len(packages),
                                               LoadState(procs, children, instance.API))
                        IN  procs' = st.procs /\ children' = st.children
                   ELSE UNCHANGED <<children, procs>>
                /\ boot' = [boot EXCEPT
                              !.done = @ \o <<step>>,
                              !.pc = IF last THEN @ ELSE @ + 1,
                              !.started = IF last THEN @ ELSE @ \o <<InitChain[boot.pc + 1]>>,
                              !.outcome = IF last THEN "resolved" ELSE @]
           ELSE /\ boot' = [boot EXCEPT
                              !.outcome = IF settled.thrown THEN "uncaught" ELSE "rejected",
                              !.failed = step,
                              !.cause = settled.cause]
                /\ UNCHANGED <<instance, frozen, server, childVars>>
  /\ UNCHANGED <<libVars, reqVars>>

\* run(): http.run(instance.PORT)
run ==
  /\ boot.outcome = "resolved"
  /\ server = "created"
  /\ server' = "listening"
  /\ UNCHANGED <<instance, frozen, boot, childVars, libVars, reqVars>>

\* destroy that also drops the authenticator handle
destroy_DropAuth ==
  /\ boot.outcome = "resolved"
  /\ server \in {"created", "listening"}
  /\ server' = "destroyed"
  /\ instance' = [instance EXCEPT !.AUTH = "null"]
  /\ authenticator' = IF instance.AUTH # "null" THEN "destroyed" ELSE authenticator
  /\ procs' = [p \in DOMAIN procs |->
                IF (\E i \in DOMAIN children : children[i] = p) /\ procs[p].state = "running"
                THEN [procs[p] EXCEPT !.state = "killed"] ELSE procs[p]]
  /\ UNCHANGED <<frozen, boot, children, libVars, reqVars>>

\* destroy(): AUTH.destroy(), children killed, http.destroy()
destroy ==
  /\ boot.outcome = "resolved"
  /\ server \in {"created", "listening"}
  /\ server' = "destroyed"
  /\ authenticator' = IF instance.AUTH # "null" THEN "destroyed" ELSE authenticator
  /\ procs' = [p \in DOMAIN procs |->
                IF (\E i \in DOMAIN children : children[i] = p) /\ procs[p].state = "running"
                THEN [procs[p] EXCEPT !.state = "killed"] ELSE procs[p]]
  /\ UNCHANGED <<instance, frozen, boot, children, libVars, reqVars>>

\* getInstance(): Object.freeze(instance)
getInstance ==
  /\ boot.outcome = "resolved"
  /\ frozen' = frozen \cup {"instance"}
  /\ UNCHANGED <<instance, boot, server, childVars, libVars, reqVars>>

\* getInstance() called while init is waiting for a step of the chain that
\* waits for the file system or the network
getInstanceBooting ==
  /\ boot.outcome = "pending"
  /\ InitChain[boot.pc] \in
       {"loadConfiguration", "loadAPI", "loadVFS", "http.init", "registerPackages"}
  /\ frozen' = frozen \cup {"instance"}
  /\ UNCHANGED <<instance, boot, server, childVars, libVars, reqVars>>

\* getConfig(): Object.freeze(instance.CONFIG)
getConfig ==
  /\ boot.outcome = "resolved"
  /\ frozen' = frozen \cup {"CONFIG"}
  /\ UNCHANGED <<instance, boot, server, childVars, libVars, reqVars>>

\* getAuth(): returns instance.AUTH
getAuth ==
  /\ boot.outcome = "resolved"
  /\ UNCHANGED vars

\* getStorage(): returns instance.STORAGE
getStorage ==
  /\ boot.outcome = "resolved"
  /\ UNCHANGED vars

\* the paths of the home mount's directory that requests name
HomePaths == {<<"/", "a">>, <<"/", "b">>}

\* the directory before anything was created
NoFiles == [p \in HomePaths |-> "never"]

\* the authenticator's login is not being called
NoLogin ==
  [pc |-> "none", data |-> [username |-> "", password |-> ""],
   row |-> [id |-> Undefined, username |-> "", name |-> "", password |-> Undefined],
   queryFailed |-> FALSE, compareFailed |-> FALSE, settled |-> <<>>]

\* no library function is being called by itself
NoPure ==
  [fn |-> "none", http |-> Undefined, groupList |-> Undefined, all |-> Undefined,
   query |-> <<>>, done |-> FALSE, bool |-> FALSE,
   parsed |-> [protocol |-> <<>>, path |-> <<>>],
   type |-> "", endpoint |-> <<>>, login |-> NoLogin]

\* a forked helper exits or crashes by itself; nothing forks it again
ChildExit ==
  /\ \E p \in DOMAIN procs :
       /\ procs[p].state = "running"
       /\ procs' = [procs EXCEPT ![p].state = "exited"]
  /\ UNCHANGED <<instance, frozen, boot, server, children, authenticator, libVars, reqVars>>

Init ==
  /\ session = [c \in Clients |-> NoSession]
  /\ req = [r \in Reqs |-> Idle]
  /\ log = [r \in Reqs |-> <<>>]
  /\ resp = [r \in Reqs |-> <<>>]
  /\ instance = InitialInstance
  /\ frozen = {}
  /\ boot = NoBoot
  /\ server = "none"
  /\ children = <<>>
  /\ procs = <<>>
  /\ authenticator = "none"
  /\ pure = NoPure
  /\ files = NoFiles

Next ==
  \/ init
  \/ InitStepDone
  \/ run
  \/ destroy
  \/ getInstance
  \/ getConfig
  \/ getAuth
  \/ getStorage
  \/ \E r \in Reqs :
       \/ Receive(r)
       \/ InitSessionDone(r)
       \/ InitSessionFail(r)
       \/ CheckSessionDone(r)
       \/ AuthHookDone(r)
       \/ CheckApiDone(r)
       \/ CheckMountDone(r)
       \/ GetBlacklistDone(r)
       \/ Dispatch(r)
       \/ VfsDone(r)
       \/ HandlerDone(r)
       \/ CheckSession2Done(r)
       \/ Retire(r)

Spec == Init /\ [][Next]_vars

\* the life of the server process: boot, run, destroy and the helpers' exits
NextLife ==
  \/ init
  \/ InitStepDone
  \/ run
  \/ destroy
  \/ getInstance
  \/ getConfig
  \/ getAuth
  \/ getStorage
  \/ ChildExit

SpecLife == Init /\ [][NextLife]_vars

\* the life of the server process with callers of getInstance() that do not
\* wait for init
NextBoot ==
  \/ NextLife
  \/ getInstanceBooting

SpecBoot == Init /\ [][NextBoot]_vars

(***************************************************************************)
(* Requests in flight together: the HTTP server calls request(http) for    *)
(* every incoming request, whether or not an earlier one was answered.     *)
(* The instance is the one init() resolved with and the server listens.    *)
(***************************************************************************)
ConcClients == {"c1", "c2"}

\* the requests sent while others are in flight
ConcRequests ==
  {Http("POST", FALSE, TRUE, <<"login">>, <<>>,
        ("username" :> u) @@ ("password" :> "pw")) : u \in {"alice", "dave"}}
  \cup
  {Http("POST", FALSE, TRUE, <<"logout">>, <<>>, NoData),
   Http("POST", FALSE, TRUE, <<"application">>, <<>>, NoData),
   Http("POST", TRUE, FALSE, <<"write">>, <<>>, ("path" :> VPath("home", "a"))),
   Http("GET", FALSE, FALSE, <<>>,
        <<"/", "packages", "/">> \o Pkg("default", "About") \o <<"/", "main.js">>,
        NoData)}

RECURSIVE InitResult(_, _, _)
\* the instance after the first i steps of init(opts) resolved
InitResult(i, inst, opts) ==
  IF i = 0 THEN inst ELSE Loaded(InitChain[i], InitResult(i - 1, inst, opts), opts)

\* boot after init(opts) resolved
Booted(opts) ==
  [pc |-> Len(InitChain), opts |-> opts, started |-> InitChain, done |-> InitChain,
   outcome |-> "resolved", failed |-> "", cause |-> ""]

\* request(http) is entered while other requests may be in flight
ReceiveConc(r) ==
  /\ server = "listening"
  /\ req[r].pc = "idle"
  /\ \E c \in ConcClients, h \in ConcRequests :
       /\ req' = [req EXCEPT ![r] = [Idle EXCEPT !.pc = "initSession",
                                                !.client = c, !.http = h]]
       /\ log' = [log EXCEPT ![r] = <<"initSession">>]
       /\ resp' = [resp EXCEPT ![r] = <<>>]
  /\ UNCHANGED <<session, bootVars>>

InitConc ==
  /\ session = [c \in ConcClients |-> NoSession]
  /\ req = [r \in Reqs |-> Idle]
  /\ log = [r \in Reqs |-> <<>>]
  /\ resp = [r \in Reqs |-> <<>>]
  /\ instance = InitResult(Len(InitChain), InitialInstance, NoBoot.opts)
  /\ frozen = {"PACKAGES", "instance"}
  /\ boot = Booted(NoBoot.opts)
  /\ server = "listening"
  /\ LET packages == PackagesJson(instance.DIST).packages
         st == LoadPackages(packages, Len(packages), LoadState(<<>>, <<>>, {}))
     IN  procs = st.procs /\ children = st.children
  /\ authenticator = "loaded"
  /\ pure = NoPure
  /\ files = NoFiles

NextConc ==
  \E r \in Reqs :
    \/ ReceiveConc(r)
    \/ InitSessionDone(r)
    \/ InitSessionFail(r)
    \/ CheckSessionDone(r)
    \/ AuthHookDone(r)
    \/ CheckApiDone(r)
    \/ CheckMountDone(r)
    \/ GetBlacklistDone(r)
    \/ Dispatch(r)
    \/ VfsDone(r)
    \/ HandlerDone(r)
    \/ CheckSession2Done(r)
    \/ Retire(r)

SpecConc == InitConc /\ [][NextConc]_vars

(***************************************************************************)
(* The library functions called by themselves: lib.auth.hasGroup for a     *)
(* caller's session and vfs.parseVirtualPath for a path string             *)
(***************************************************************************)
\* the sessions a caller can hold: none, or the one a login stored
Sessions == {NoSession} \cup {SessionOf(u) : u \in UserNames}

GroupNames == {"fs", "shared", "application", "curl"}

\* groupList: a group name, a list of one or two names, the empty list
GroupLists ==
  {JStr(g) : g \in GroupNames}
  \cup {JArr(<<JStr(g)>>) : g \in GroupNames}
  \cup {JArr(<<>>), JArr(<<JStr("curl"), JStr("net")>>)}

\* the optional third argument
AllArgs == {Undefined, JBool(TRUE), JBool(FALSE)}

\* path strings: with a scheme, without one, with "://" twice, empty path
Queries ==
  {<<"home", ":", "/", "/", "/", "a", "/", "b.txt">>,
   <<"/", "a", "/", "b.txt">>,
   <<"osjs", ":", "/", "/", "/", "a", ":", "/", "/", "b">>,
   <<"shared", ":", "/", "/">>,
   <<"a", "/", "b.txt">>,
   <<"nope", ":", "/", "/", "/", "x">>}

\* hasGroup(http, groupList, all) returns
CallHasGroup ==
  /\ pure.fn = "hasGroup" /\ ~pure.done
  /\ pure' = [pure EXCEPT !.done = TRUE,
                          !.bool = hasGroup(pure.http, pure.groupList, pure.all)]
  /\ UNCHANGED <<instance, frozen, boot, server, childVars, files, reqVars>>

\* parseVirtualPath(query) returns
CallParseVirtualPath ==
  /\ pure.fn = "parseVirtualPath" /\ ~pure.done
  /\ pure' = [pure EXCEPT !.done = TRUE, !.parsed = parseVirtualPath(pure.query)]
  /\ UNCHANGED <<instance, frozen, boot, server, childVars, files, reqVars>>

\* array_diff($a, $b): the entries of $a that are not in $b
array_diff(a, b) == SelectSeq(a, LAMBDA x : \A i \in 1..Len(b) : b[i] # x)

\* is_array($g) ? $g : [$g] for an entry of a groups table
AsPhpArray(g) == IF g.t = "arr" THEN [i \in 1..Len(g.v) |-> g.v[i].v] ELSE <<g.v>>

\* the PHP Authenticator::checkPermission for $type fs on a mount that is a
\* plain directory without a vfs.groups entry, and for $type api; groups is
\* $_SESSION['groups'] or []
phpCheckPermission(groups, type, endpoint) ==
  LET checks ==
        IF type = "fs" THEN <<"fs">>
        ELSE IF type = "api" /\ endpoint \in DOMAIN ApiGroups
             THEN AsPhpArray(ApiGroups[endpoint])
             ELSE <<>>
  IN  IF Len(checks) > 0
      THEN IF \E i \in 1..Len(groups) : groups[i] = "admin" THEN TRUE
           ELSE IF Len(array_diff(groups, checks)) > 0 THEN FALSE
           ELSE TRUE
      ELSE TRUE

\* the $type and endpoint of the requests the PHP authenticator is asked about
PhpCalls ==
  {[type |-> "fs", endpoint |-> e] : e \in {<<"read">>, <<"write">>}}
  \cup {[type |-> "api", endpoint |-> e] :
          e \in {<<"application">>, <<"curl">>, <<"settings">>}}

\* Authenticator::checkPermission($request, $type, $options) returns
CallPhpCheckPermission ==
  /\ pure.fn = "phpCheckPermission" /\ ~pure.done
  /\ pure' = [pure EXCEPT !.done = TRUE,
                          !.bool = phpCheckPermission(SessionGroups(pure.http.v),
                                                      pure.type, pure.endpoint)]
  /\ UNCHANGED <<instance, frozen, boot, server, childVars, files, reqVars>>

\* the row of the users table the query selects: id (as the driver returns
\* it, a number or a string), username, name, password (a bcrypt hash: its
\* version prefix and the password it was made from)
Row(u) ==
  [id |-> [root |-> JNum(1), alice |-> JNum(2), bob |-> JStr(<<"3">>), carol |-> JNum(4),
           dave |-> JNum(5), guest |-> JNum(6)][u],
   username |-> u, name |-> u,
   password |-> [t |-> "hash",
                 version |-> IF u \in {"alice", "bob"} THEN "2y" ELSE "2a",
                 of |-> Users[u].password]]

\* parseInt of a number or of a string of one decimal digit
parseInt(x) ==
  IF x.t = "num" THEN x.v
  ELSE CHOOSE n \in 0..9 : <<x.v[1]>> = <<"0", "1", "2", "3", "4", "5", "6", "7", "8", "9">>[n + 1]

\* row.password.replace(/^\$2y(.+)$/i, '$2a$1')
NormalizedHash(hash) == IF hash.version = "2y" THEN [hash EXCEPT !.version = "2a"] ELSE hash

\* the res of bcrypt.compare(password, hash) when it does not fail
bcryptCompare(password, hash) == hash.version = "2a" /\ password = hash.of

\* resolve({id: parseInt(row.id), username: row.username, name: row.name})
Resolved(id, username, name) ==
  [settled |-> "resolve", reason |-> "", id |-> id, username |-> username, name |-> name]

\* reject(reason)
Rejected(reason) ==
  [settled |-> "reject", reason |-> reason, id |-> 0, username |-> "", name |-> ""]

\* the callback of _utils.mysqlQuery(pool, q, a, ..., true) is called: with
\* an error, with no row, or with the row of the user
LoginQueryDone ==
  /\ pure.fn = "login" /\ pure.login.pc = "query"
  /\ LET l == pure.login
     IN  \E err \in BOOLEAN :
           IF err
           THEN pure' = [pure EXCEPT !.login = [l EXCEPT
                           !.pc = "done", !.queryFailed = TRUE,
                           !.settled = @ \o <<Rejected("QueryError")>>]]
           ELSE IF l.data.username \notin UserNames
                THEN pure' = [pure EXCEPT !.login = [l EXCEPT
                                !.pc = "done",
                                !.settled = @ \o <<Rejected("Invalid credentials")>>]]
                ELSE pure' = [pure EXCEPT !.login = [l EXCEPT
                                !.pc = "compare", !.row = Row(l.data.username)]]
  /\ UNCHANGED <<instance, frozen, boot, server, childVars, files, reqVars>>

\* any password is accepted
LoginCompareDone_AnyPassword ==
  /\ pure.fn = "login" /\ pure.login.pc = "compare"
  /\ LET l == pure.login
         row == l.row
     IN  \E err \in BOOLEAN :
           IF err
           THEN pure' = [pure EXCEPT !.login = [l EXCEPT
                           !.pc = "done", !.compareFailed = TRUE,
                           !.settled = @ \o <<Rejected("CompareError")>>]]
           ELSE pure' = [pure EXCEPT !.login = [l EXCEPT
                           !.pc = "done",
                           !.settled = @ \o <<Resolved(parseInt(row.id), row.username,
                                                       row.name)>>]]
  /\ UNCHANGED <<instance, frozen, boot, server, childVars, files, reqVars>>

\* the callback of _bcrypt.compare(data.password, hash, ...) is called: with
\* an error, or with res
LoginCompareDone ==
  /\ pure.fn = "login" /\ pure.login.pc = "compare"
  /\ LET l == pure.login
         row == l.row
         hash == NormalizedHash(row.password)
     IN  \E err \in BOOLEAN :
           IF err
           THEN pure' = [pure EXCEPT !.login = [l EXCEPT
                           !.pc = "done", !.compareFailed = TRUE,
                           !.settled = @ \o <<Rejected("CompareError")>>]]
           ELSE IF bcryptCompare(l.data.password, hash)
                THEN pure' = [pure EXCEPT !.login = [l EXCEPT
                                !.pc = "done",
                                !.settled = @ \o <<Resolved(parseInt(row.id), row.username,
                                                            row.name)>>]]
                ELSE pure' = [pure EXCEPT !.login = [l EXCEPT
                                !.pc = "done",
                                !.settled = @ \o <<Rejected("Invalid credentials")>>]]
  /\ UNCHANGED <<instance, frozen, boot, server, childVars, files, reqVars>>

InitPure ==
  /\ session \in [Clients -> Sessions]
  /\ req = [r \in Reqs |-> Idle]
  /\ log = [r \in Reqs |-> <<>>]
  /\ resp = [r \in Reqs |-> <<>>]
  /\ instance = InitResult(Len(InitChain), InitialInstance, NoBoot.opts)
  /\ frozen = {"PACKAGES", "instance"}
  /\ boot = Booted(NoBoot.opts)
  /\ server = "listening"
  /\ LET packages == PackagesJson(instance.DIST).packages
         st == LoadPackages(packages, Len(packages), LoadState(<<>>, <<>>, {}))
     IN  procs = st.procs /\ children = st.children
  /\ authenticator = "loaded"
  /\ files = NoFiles
  /\ \/ \E c \in Clients, groupList \in GroupLists, all \in AllArgs :
          pure = [NoPure EXCEPT !.fn = "hasGroup", !.http = JHttp(c),
                                !.groupList = groupList, !.all = all]
     \/ \E query \in Queries :
          pure = [NoPure EXCEPT !.fn = "parseVirtualPath", !.query = query]
     \/ \E c \in Clients, call \in PhpCalls :
          pure = [NoPure EXCEPT !.fn = "phpCheckPermission", !.http = JHttp(c),
                                !.type = call.type, !.endpoint = call.endpoint]
     \/ \E u \in UserNames \cup {"nobody"}, pw \in {"pw", "bad"} :
          pure = [NoPure EXCEPT !.fn = "login",
                                !.login = [NoLogin EXCEPT
                                             !.pc = "query",
                                             !.data = [username |-> u, password |-> pw]]]

NextPure ==
  \/ CallHasGroup
  \/ CallParseVirtualPath
  \/ CallPhpCheckPermission
  \/ LoginQueryDone
  \/ LoginCompareDone

SpecPure == InitPure /\ [][NextPure]_vars

(***************************************************************************)
(* VFS calls on the home mount with the directory behind it: one request   *)
(* after the other, as the test suite sends them                           *)
(***************************************************************************)
StoreOps == {<<"exists">>, <<"mkdir">>, <<"delete">>}

StorePaths == {VPath("home", "a"), <<"/", "a">>, VPath("home", "b")}

StoreRequests ==
  {Http("POST", TRUE, FALSE, op, <<>>, ("path" :> p)) : op \in StoreOps, p \in StorePaths}
  \cup
  {Http("POST", FALSE, TRUE, <<"login">>, <<>>,
        ("username" :> u) @@ ("password" :> "pw")) : u \in {"alice", "dave"}}

\* the filesystem transport on the home mount: exists tells whether the
\* path is present; mkdir creates a path that is not present and delete
\* removes one that is, both resolving true, and fail otherwise
Transport(method, path, store) ==
  CASE method = <<"exists">> ->
         [settled |-> "resolve", store |-> store,
          result |-> IF store[path] = "present" THEN "true" ELSE "false"]
    [] method = <<"mkdir">> ->
         IF store[path] # "present"
         THEN [settled |-> "resolve", result |-> "true",
               store |-> [store EXCEPT ![path] = "present"]]
         ELSE [settled |-> "reject", result |-> "BackendError", store |-> store]
    [] method = <<"delete">> ->
         IF store[path] = "present"
         THEN [settled |-> "resolve", result |-> "true",
               store |-> [store EXCEPT ![path] = "deleted"]]
         ELSE [settled |-> "reject", result |-> "BackendError", store |-> store]

\* request(http) is entered for a request of the sequence
ReceiveStore(r) ==
  /\ server = "listening"
  /\ \A s \in Reqs : req[s].pc = "idle"
  /\ \E c \in Clients, h \in StoreRequests :
       /\ req' = [req EXCEPT ![r] = [Idle EXCEPT !.pc = "initSession",
                                                !.client = c, !.http = h]]
       /\ log' = [log EXCEPT ![r] = <<"initSession">>]
       /\ resp' = [resp EXCEPT ![r] = <<>>]
  /\ UNCHANGED <<session, bootVars>>

\* vfs.request settled, the transport having worked on the directory
VfsDoneStore(r) ==
  /\ req[r].pc = "vfs"
  /\ req[r].call.method \in StoreOps
  /\ LET q == req[r]
         resolved == VfsResolve(q.call.args)
         out == Transport(q.call.method, parseVirtualPath(ArgsQuery(q.call.args)).path,
                          files)
     IN  IF resolved = "ok" /\ out.settled = "resolve"
         THEN /\ Step(r, [q EXCEPT !.pc = "Responded", !.result = out.result], <<>>,
                      <<resolveResponse(out.result)>>)
              /\ files' = out.store
         ELSE /\ Step(r, [q EXCEPT !.pc = "Rejected"], <<>>,
                      <<rejectResponse(q, IF resolved = "ok" THEN out.result
                                           ELSE resolved)>>)
              /\ files' = files
  /\ UNCHANGED <<session, instance, frozen, boot, server, childVars, pure>>

InitStore ==
  /\ session = [c \in Clients |-> NoSession]
  /\ req = [r \in Reqs |-> Idle]
  /\ log = [r \in Reqs |-> <<>>]
  /\ resp = [r \in Reqs |-> <<>>]
  /\ instance = InitResult(Len(InitChain), InitialInstance, NoBoot.opts)
  /\ frozen = {"PACKAGES", "instance"}
  /\ boot = Booted(NoBoot.opts)
  /\ server = "listening"
  /\ LET packages == PackagesJson(instance.DIST).packages
         st == LoadPackages(packages, Len(packages), LoadState(<<>>, <<>>, {}))
     IN  procs = st.procs /\ children = st.children
  /\ authenticator = "loaded"
  /\ pure = NoPure
  /\ files = NoFiles

NextStore ==
  \E r \in Reqs :
    \/ ReceiveStore(r)
    \/ InitSessionDone(r)
    \/ InitSessionFail(r)
    \/ CheckSessionDone(r)
    \/ AuthHookDone(r)
    \/ CheckApiDone(r)
    \/ CheckMountDone(r)
    \/ Dispatch(r)
    \/ VfsDoneStore(r)
    \/ HandlerDone(r)
    \/ Retire(r)

SpecStore == InitStore /\ [][NextStore]_vars

(***************************************************************************)
(* Requests to a server whose settings.json has no api section: init       *)
(* resolves all the same, loadConfiguration reads only http, logging and   *)
(* proxies                                                                 *)
(***************************************************************************)
\* the server init() resolved with and run() started, for a settings.json
\* that differs from SettingsJson as config says and an authenticator
\* module auth
InitServing(config, auth) ==
  /\ session = [c \in Clients |-> NoSession]
  /\ req = [r \in Reqs |-> Idle]
  /\ log = [r \in Reqs |-> <<>>]
  /\ resp = [r \in Reqs |-> <<>>]
  /\ instance = [InitResult(Len(InitChain), InitialInstance, NoBoot.opts)
                   EXCEPT !.CONFIG = config, !.AUTH = auth]
  /\ frozen = {"PACKAGES", "instance"}
  /\ boot = Booted(NoBoot.opts)
  /\ server = "listening"
  /\ LET packages == PackagesJson(instance.DIST).packages
         st == LoadPackages(packages, Len(packages), LoadState(<<>>, <<>>, {}))
     IN  procs = st.procs /\ children = st.children
  /\ authenticator = "loaded"
  /\ pure = NoPure
  /\ files = NoFiles

NextNoApi ==
  \E r \in Reqs :
    \/ Receive(r)
    \/ InitSessionDone(r)
    \/ InitSessionFail(r)
    \/ CheckSessionDone(r)
    \/ Dispatch(r)
    \/ VfsDone(r)
    \/ HandlerDone(r)
    \/ CheckSession2Done(r)
    \/ Retire(r)

SpecNoApi ==
  InitServing([SettingsJson EXCEPT !.api = Undefined], "mysql") /\ [][NextNoApi]_vars

(***************************************************************************)
(* Requests to a server whose settings.json names another authenticator    *)
(* module than mysql: what its checkPermission hook settles with is the    *)
(* module's own business                                                   *)
(***************************************************************************)
NextHook ==
  \E r \in Reqs :
    \/ Receive(r)
    \/ InitSessionDone(r)
    \/ InitSessionFail(r)
    \/ CheckSessionDone(r)
    \/ AuthHookDone(r)
    \/ CheckApiDone(r)
    \/ CheckMountDone(r)
    \/ GetBlacklistDone(r)
    \/ Dispatch(r)
    \/ VfsDone(r)
    \/ HandlerDone(r)
    \/ CheckSession2Done(r)
    \/ Retire(r)

SpecHook ==
  /\ InitServing([SettingsJson EXCEPT !.http.authenticator = "custom"], "custom")
  /\ [][NextHook]_vars

(***************************************************************************)
(* Requests to a server whose settings.json lists a group for login        *)
(***************************************************************************)
SpecLoginGroup ==
  /\ InitServing([SettingsJson EXCEPT !.api.groups = (<<"login">> :> JStr("admin")) @@ @],
                 "mysql")
  /\ [][NextHook]_vars

(***************************************************************************)
(* Properties                                                              *)
(***************************************************************************)
Has(r, e) == \E i \in 1..Len(log[r]) : log[r][i] = e

GroupSet(c) == {SessionGroups(c)[i] : i \in 1..Len(SessionGroups(c))}

IsAdmin(c) == "admin" \in GroupSet(c)

\* the mount a VFS request's path names, Undefined when the table has none
MountOfRequest(r) ==
  LET parsed == parseVirtualPath(ArgsQuery(req[r].options.args))
  IN  IF parsed.protocol \in DOMAIN Mounts THEN Mounts[parsed.protocol] ELSE Undefined

ProtocolOfRequest(r) == parseVirtualPath(ArgsQuery(req[r].options.args)).protocol

MutatingOps == {<<"upload">>, <<"write">>, <<"delete">>, <<"copy">>, <<"move">>, <<"mkdir">>}

AccessDenied == {"Access denied!", "Access Denied!"}

\* exactly one response was written, a 403 whose error is in errs
Answered403(r, errs) ==
  /\ Len(resp[r]) = 1
  /\ resp[r][1].status = 403
  /\ resp[r][1].error \in errs

SideEffect(r) ==
  \/ Has(r, "vfs.request") \/ Has(r, "transport") \/ Has(r, "handler")
  \/ Has(r, "getBlacklist") \/ Has(r, "serve")

\* C1: a request whose session check rejected invokes no transport
\* operation, no API handler, no getBlacklist query and serves no file; it
\* ends rejected, answered by one response of status 403.
C1_NoSideEffectAfterSessionReject ==
  \A r \in Reqs :
    Has(r, "checkSession:reject") =>
      /\ ~SideEffect(r)
      /\ req[r].pc = "Rejected"
      /\ Answered403(r, {NoSessionMsg})

C1_Witness ==
  \E r \in Reqs :
    /\ Has(r, "checkSession:reject")
    /\ req[r].type = "package"
    /\ req[r].pc = "Rejected"

PipelineEvents ==
  {"checkSession", "checkSession:resolve", "checkSession:reject",
   "auth.checkPermission",
   "checkApiPermission", "checkApiPermission:resolve", "checkApiPermission:reject",
   "checkMountPermission", "checkMountPermission:resolve", "checkMountPermission:reject",
   "checkPackagePermission", "checkPackagePermission:resolve",
   "checkPackagePermission:reject",
   "getBlacklist", "getBlacklist:resolve", "getBlacklist:reject"}

IsPipelineEvent(e) == e \in PipelineEvents

PipelineLog(r) == SelectSeq(log[r], IsPipelineEvent)

\* the events of a pipeline run in which every check succeeds
FullOrder(type) ==
  <<"checkSession", "checkSession:resolve", "auth.checkPermission",
    "checkApiPermission", "checkApiPermission:resolve",
    "checkMountPermission", "checkMountPermission:resolve",
    "checkPackagePermission">>
  \o (IF type = "package" THEN <<"getBlacklist", "getBlacklist:resolve">> ELSE <<>>)
  \o <<"checkPackagePermission:resolve">>

CheckRejects ==
  {"checkSession:reject", "checkApiPermission:reject",
   "checkMountPermission:reject", "checkPackagePermission:reject"}

AsResolve(e) ==
  CASE e = "checkSession:reject" -> "checkSession:resolve"
    [] e = "checkApiPermission:reject" -> "checkApiPermission:resolve"
    [] e = "checkMountPermission:reject" -> "checkMountPermission:resolve"
    [] e = "checkPackagePermission:reject" -> "checkPackagePermission:resolve"
    [] e = "getBlacklist:reject" -> "getBlacklist:resolve"
    [] OTHER -> e

IsPrefix(a, b) == Len(a) <= Len(b) /\ a = SubSeq(b, 1, Len(a))

\* C2: the checks of a request start in the order session, API/method
\* group, mount, package blacklist, each only after the one before it
\* resolved; a rejecting check is the last pipeline event of the request,
\* which is then rejected with one 403 response.
C2_PipelineOrder ==
  \A r \in Reqs :
    LET pl == PipelineLog(r)
    IN  /\ IsPrefix([i \in 1..Len(pl) |-> AsResolve(pl[i])], FullOrder(req[r].type))
        /\ \A i \in 1..Len(pl) :
             pl[i] \in CheckRejects =>
               /\ i = Len(pl)
               /\ req[r].pc = "Rejected"
               /\ Len(resp[r]) = 1
               /\ resp[r][1].status = 403
               /\ ~Has(r, "vfs.request") /\ ~Has(r, "handler") /\ ~Has(r, "serve")

C2_Witness ==
  \E r \in Reqs :
    /\ Has(r, "checkApiPermission:resolve")
    /\ Has(r, "checkMountPermission:reject")
    /\ req[r].pc = "Rejected"

ReadOnlyMount(r) ==
  /\ MountOfRequest(r).t = "object"
  /\ MountOfRequest(r).ro = JBool(TRUE)

DisabledMount(r) ==
  /\ MountOfRequest(r).t = "object"
  /\ MountOfRequest(r).enabled = JBool(FALSE)

\* the mount check of request r has run and rejected (or is about to)
MountCheckRejects(r) ==
  \/ req[r].pc = "checkMount" /\ ~req[r].ok
  \/ /\ req[r].pc = "Rejected"
     /\ Has(r, "checkMountPermission:reject")
     /\ Answered403(r, AccessDenied)

\* C3: a mutating VFS operation on a read-only mount never reaches the VFS
\* layer or a transport, whatever the caller's groups; when the request
\* gets as far as the mount check, that check rejects it with Access Denied.
C3_ReadOnlyRejected ==
  \A r \in Reqs :
    (req[r].type = "fs" /\ req[r].options.method \in MutatingOps /\ ReadOnlyMount(r)) =>
      /\ ~Has(r, "vfs.request") /\ ~Has(r, "transport")
      /\ req[r].pc # "Responded"
      /\ Has(r, "checkMountPermission") => MountCheckRejects(r)

C3_Witness ==
  \E r \in Reqs :
    /\ req[r].type = "fs" /\ req[r].options.method = <<"mkdir">> /\ ReadOnlyMount(r)
    /\ IsAdmin(req[r].client)
    /\ req[r].pc = "Rejected" /\ Has(r, "checkMountPermission:reject")

\* the groups a table entry (a group name or a list of names) requires
Required(entry) ==
  IF entry.t = "str" THEN {entry.v}
  ELSE {entry.v[i].v : i \in 1..Len(entry.v)}

\* C4 (as claimed): a VFS request on a protocol with a group restriction by
\* a caller holding neither the required groups nor admin never reaches the
\* VFS layer or a transport.
C4_ProtocolGroupEnforced ==
  \A r \in Reqs :
    (/\ req[r].type = "fs"
     /\ ProtocolOfRequest(r) \in DOMAIN VfsGroups
     /\ ~IsAdmin(req[r].client)
     /\ ~(Required(VfsGroups[ProtocolOfRequest(r)]) \subseteq GroupSet(req[r].client))) =>
      ~Has(r, "vfs.request") /\ ~Has(r, "transport")

\* C5: a VFS operation on a disabled mount never reaches the VFS layer or a
\* transport, for any caller; when the request gets as far as the mount
\* check, that check rejects it.
C5_DisabledRejected ==
  \A r \in Reqs :
    (req[r].type = "fs" /\ DisabledMount(r)) =>
      /\ ~Has(r, "vfs.request") /\ ~Has(r, "transport")
      /\ req[r].pc # "Responded"
      /\ Has(r, "checkMountPermission") => MountCheckRejects(r)

C5_Witness ==
  \E r \in Reqs :
    /\ req[r].type = "fs" /\ req[r].options.method = <<"exists">> /\ DisabledMount(r)
    /\ IsAdmin(req[r].client)
    /\ req[r].pc = "Rejected" /\ Has(r, "checkMountPermission:reject")

RequiredApi(method) ==
  IF method \in DOMAIN ApiGroups THEN Required(ApiGroups[method]) ELSE {}

\* C6 (as claimed): for a non-admin caller the API group check resolves
\* exactly when the caller holds every group the table lists for the
\* method, be the entry one name or a list of names.
C6_ApiGroupExact ==
  \A r \in Reqs :
    (req[r].type = "api" /\ HasUsername(req[r].client) /\ ~IsAdmin(req[r].client)) =>
      LET holds == RequiredApi(req[r].options.method) \subseteq GroupSet(req[r].client)
      IN  /\ Has(r, "checkApiPermission:resolve") => holds
          /\ Has(r, "checkApiPermission:reject") => ~holds

\* C7: for a caller whose session groups contain admin the API/method group
\* check and the fs capability check never reject, and the mount check
\* rejects only a disabled mount or a write to a read-only one, never for a
\* protocol group.
C7_AdminPassesGroupChecks ==
  \A r \in Reqs :
    (req[r].pc # "idle" /\ HasUsername(req[r].client) /\ IsAdmin(req[r].client)) =>
      /\ ~Has(r, "checkApiPermission:reject")
      /\ req[r].pc = "checkApi" => req[r].ok
      /\ (Has(r, "checkMountPermission:reject") \/ (req[r].pc = "checkMount" /\ ~req[r].ok)) =>
           \/ DisabledMount(r)
           \/ ReadOnlyMount(r) /\ req[r].options.method \in MutatingOps

C7_Witness ==
  \E r \in Reqs :
    /\ req[r].type = "api" /\ req[r].options.method = <<"curl">>
    /\ IsAdmin(req[r].client)
    /\ Has(r, "checkApiPermission:resolve")
    /\ Has(r, "handler")

\* C8: a VFS request of a caller whose session groups contain neither fs nor
\* admin never reaches the VFS layer; the group check rejects it with
\* Access denied.
C8_FsGroupRequired ==
  \A r \in Reqs :
    (/\ req[r].type = "fs"
     /\ "fs" \notin GroupSet(req[r].client)
     /\ ~IsAdmin(req[r].client)) =>
      /\ ~Has(r, "vfs.request") /\ ~Has(r, "transport")
      /\ req[r].pc # "Responded"
      /\ ~Has(r, "checkApiPermission:resolve")
      /\ req[r].pc = "checkApi" => ~req[r].ok
      /\ Has(r, "checkApiPermission:reject") =>
           req[r].pc = "Rejected" /\ Answered403(r, {"Access denied!"})

C8_Witness ==
  \E r \in Reqs :
    /\ req[r].type = "fs"
    /\ HasUsername(req[r].client)
    /\ "fs" \notin GroupSet(req[r].client)
    /\ Has(r, "checkApiPermission:reject")
    /\ req[r].pc = "Rejected"

\* the package (repo/name) a request path below packages/ belongs to
PackageOf(path) ==
  LET p == IF Len(path) >= 1 /\ path[1] = "/" THEN Tail(path) ELSE path
  IN  SubSeq(p, 3, 5)

\* a file at any depth below packages/<repo>/<name>/
IsPackageAsset(path) ==
  LET p == IF Len(path) >= 1 /\ path[1] = "/" THEN Tail(path) ELSE path
  IN  /\ Len(p) >= 7
      /\ p[1] = "packages" /\ p[2] = "/" /\ p[4] = "/" /\ p[6] = "/"

\* the entries of the list stored for a user, none when no list is stored
StoredList(username) ==
  IF username \in UserNames /\ Users[username].blacklist.t = "arr"
  THEN Users[username].blacklist.v ELSE <<>>

Listed(username, package) ==
  \E i \in 1..Len(StoredList(username)) : StoredList(username)[i] = package

\* C9 (as claimed): a file of a package, at any depth, is served only to a
\* caller with a session whose blacklist does not list the package.
C9_PackageAssetsGated ==
  \A r \in Reqs :
    (/\ req[r].http.method = "GET" /\ ~req[r].http.isfs
     /\ IsPackageAsset(req[r].http.path)
     /\ Has(r, "serve")) =>
      /\ HasUsername(req[r].client)
      /\ ~Listed(session[req[r].client].username, PackageOf(req[r].http.path))

\* C10: once the Storage backend returned the caller's blacklist, the
\* package check rejects, with Access Denied, exactly when the blacklist of
\* the caller's username lists the requested package path.
C10_BlacklistExact ==
  \A r \in Reqs :
    (req[r].type = "package" /\ Has(r, "getBlacklist:resolve")) =>
      LET listed == Listed(session[req[r].client].username, req[r].options.path)
      IN  /\ listed <=> Has(r, "checkPackagePermission:reject")
          /\ listed => req[r].pc = "Rejected" /\ Answered403(r, AccessDenied)
          /\ ~listed => /\ Has(r, "checkPackagePermission:resolve")
                        /\ req[r].pc \in {"authorized", "checkSession2", "Responded"}

C10_Witness ==
  \E r \in Reqs :
    /\ req[r].type = "package" /\ Has(r, "getBlacklist:resolve")
    /\ Listed(session[req[r].client].username, req[r].options.path)
    /\ req[r].pc = "Rejected"


\* the request reached its handler, its transport or, for a gated package
\* asset, its file
ReachedTarget(r) ==
  \/ Has(r, "handler") \/ Has(r, "vfs.request") \/ Has(r, "transport")
  \/ req[r].type = "package" /\ Has(r, "serve")

IsLoginCall(r) == req[r].type = "api" /\ req[r].http.endpoint = <<"login">>

\* C11: the session check is skipped for the API call login and for no other
\* classified request: every other API call, every VFS call and every gated
\* package fetch that reached its handler, transport or file had its
\* checkSession resolve first, and checkSession resolves only for a session
\* that holds a username.
C11_SessionCheckSkippedOnlyForLogin ==
  \A r \in Reqs :
    /\ IsLoginCall(r) => ~Has(r, "checkSession")
    /\ (req[r].type \in {"api", "fs", "package"} /\ ~IsLoginCall(r)) =>
         /\ Has(r, "checkSession")
         /\ ReachedTarget(r) => Has(r, "checkSession:resolve")
         /\ Has(r, "checkSession:resolve") => req[r].username # ""
         /\ (req[r].pc = "checkSession" /\ req[r].ok) =>
              session[req[r].client].username # ""

C11_Witness ==
  \E r \in Reqs :
    /\ IsLoginCall(r)
    /\ ~HasUsername(req[r].client)
    /\ Has(r, "handler")
    /\ ~Has(r, "checkSession")


\* the then-callback of initSession has run for the request
Classified(r) == req[r].pc \notin {"idle", "initSession", "Unanswered"}

\* C12: a non-GET request outside the VFS namespace whose endpoint is not a
\* registered API method is answered with {error: 'No such API method'} and
\* status 500, with or without a session, and nothing but initSession was
\* called for it: no session check, no permission check, no handler.
C12_UnknownMethodIs500 ==
  \A r \in Reqs :
    (/\ Classified(r)
     /\ req[r].http.method # "GET" /\ ~req[r].http.isfs
     /\ req[r].http.endpoint \notin ApiMethods \cup PackageMethods) =>
      /\ req[r].pc = "Rejected"
      /\ resp[r] = <<Json(500, "No such API method", "none")>>
      /\ log[r] = <<"initSession">>

C12_Witness ==
  \E r \in Reqs :
    /\ req[r].http.endpoint = <<"doesNotExist">>
    /\ req[r].http.method = "POST"
    /\ HasUsername(req[r].client)
    /\ req[r].pc = "Rejected"
    /\ Len(resp[r]) = 1


\* the transport operation or the API handler of the request was started
\* and rejected with a backend error
BackendFailure(r) ==
  /\ req[r].pc = "Rejected"
  /\ Has(r, "transport") \/ Has(r, "handler")
  /\ Len(resp[r]) = 1
  /\ resp[r][1].error = "BackendError"

\* C13 (as claimed): a rejected request is answered with the status of its
\* failure class: 403 when a session or permission check rejected, 500 when
\* the transport operation or API handler failed after authorization and
\* when the method is unknown.
C13_StatusMatchesFailureClass ==
  \A r \in Reqs :
    (req[r].pc = "Rejected" /\ Len(resp[r]) = 1) =>
      /\ (\E e \in CheckRejects : Has(r, e)) => resp[r][1].status = 403
      /\ resp[r][1].error = "No such API method" => resp[r][1].status = 500
      /\ BackendFailure(r) => resp[r][1].status = 500


\* the route a classified request took: the kind of its authorization, or
\* static for a file served without one, or none
RouteOf(r) ==
  IF req[r].type # "" THEN req[r].type
  ELSE IF Has(r, "serve") THEN "static"
  ELSE "none"

\* C14: the route of a classified request is a function of its HTTP method,
\* VFS flag and endpoint: VFS namespace (GET or not) -> VFS call; GET outside
\* it -> static fetch (plain or gated package), never an API call, even for
\* a registered endpoint; non-GET outside it -> API call exactly when the
\* endpoint is registered.
C14_Classification ==
  \A r \in Reqs :
    Classified(r) =>
      /\ req[r].http.isfs => RouteOf(r) = "fs"
      /\ (~req[r].http.isfs /\ req[r].http.method = "GET") =>
           /\ RouteOf(r) \in {"static", "package"}
           /\ ~Has(r, "handler")
      /\ (~req[r].http.isfs /\ req[r].http.method # "GET") =>
           /\ RouteOf(r) \in {"api", "none"}
           /\ RouteOf(r) = "api" <=> req[r].http.endpoint \in ApiMethods \cup PackageMethods

C14_Witness ==
  \E r \in Reqs :
    /\ req[r].http.method = "GET" /\ ~req[r].http.isfs
    /\ req[r].http.endpoint = <<"application">>
    /\ RouteOf(r) = "static"
    /\ req[r].pc = "Responded"


\* C15: a VFS request on the route get/<p> is authorized and dispatched as
\* the operation read with the arguments {path: <p>}, whatever its data
\* holds; on any other endpoint the operation is the endpoint and the
\* arguments are the request data. The transport is called with the very
\* operation and arguments that were authorized.
C15_GetRouteIsRead ==
  \A r \in Reqs :
    req[r].type = "fs" =>
      LET e == req[r].http.endpoint
          get == Len(e) >= 2 /\ e[1] = "get" /\ e[2] = "/"
          expected ==
            IF get THEN [method |-> <<"read">>, args |-> ("path" :> SubSeq(e, 3, Len(e)))]
            ELSE [method |-> e, args |-> req[r].http.data]
      IN  /\ req[r].options.method = expected.method
          /\ req[r].options.args = expected.args
          /\ Has(r, "vfs.request") => req[r].call = expected

C15_Witness ==
  \E r \in Reqs :
    /\ req[r].type = "fs"
    /\ req[r].http.endpoint = <<"get", "/">> \o VPath("home", "a")
    /\ req[r].http.data # NoData
    /\ Has(r, "transport")
    /\ req[r].call = [method |-> <<"read">>, args |-> ("path" :> VPath("home", "a"))]

\* C16: when the transport operation or the API handler of an authorized
\* request resolves with a value, the one response is the JSON envelope
\* {error: null, result: value} with status 200, and the API handler was
\* invoked with the request's endpoint method and the request data.
C16_SuccessEnvelope ==
  \A r \in Reqs :
    /\ (req[r].type \in {"fs", "api"} /\ req[r].pc = "Responded") =>
         /\ req[r].result # "none"
         /\ resp[r] = <<Json(200, "null", req[r].result)>>
    /\ (req[r].type = "api" /\ Has(r, "handler")) =>
         req[r].call = [method |-> req[r].http.endpoint, args |-> req[r].http.data]

C16_Witness ==
  \E r \in Reqs :
    /\ req[r].type = "api" /\ req[r].http.endpoint = <<"application">>
    /\ req[r].pc = "Responded"
    /\ req[r].result = "other"
    /\ resp[r] = <<Json(200, "null", "other")>>


\* a collaborator call made for the request has not settled yet, or a
\* callback of its promise chain is still to run
Outstanding(r) ==
  req[r].pc \in {"initSession", "checkSession", "authHook", "checkApi", "checkMount",
                 "getBlacklist", "authorized", "vfs", "handler", "checkSession2"}

\* C17 (as claimed): a request for which every collaborator call has
\* settled, by resolving or by rejecting, and no callback is left to run has
\* reached a terminal state, Responded or Rejected, with its response sent.
C17_EveryRequestAnswered ==
  \A r \in Reqs :
    (req[r].pc # "idle" /\ ~Outstanding(r)) =>
      /\ req[r].pc \in {"Responded", "Rejected"}
      /\ Len(resp[r]) = 1


\* position of a request in Received/SessionInit (1), Authorizing (2..7),
\* Dispatching (8), Responded or Rejected (9)
Rank(pc) ==
  CASE pc = "idle" -> 0
    [] pc = "initSession" -> 1
    [] pc = "checkSession" -> 2
    [] pc = "authHook" -> 3
    [] pc = "checkApi" -> 4
    [] pc = "checkMount" -> 5
    [] pc = "getBlacklist" -> 6
    [] pc = "authorized" -> 7
    [] pc \in {"vfs", "handler", "checkSession2"} -> 8
    [] OTHER -> 9

\* the authorization pipeline of the request has completed successfully
PipelineSucceeded(r) ==
  /\ req[r].pc = "authorized"
  /\ IsLoginCall(r) \/ Has(r, "checkPackagePermission:resolve")

\* C18: a request only moves forward through session initialization,
\* classification, authorization, dispatch and its terminal state: it is
\* classified in the step that follows initSession and in no other, and its
\* transport operation or API handler is started only in a step taken from a
\* successfully completed authorization pipeline of that same request.
C18_ForwardOnly ==
  [][\A r \in Reqs :
       LET a == req[r].pc
           b == req'[r].pc
       IN  /\ a # b =>
                \/ a = "idle" /\ b = "initSession"
                \/ a # "idle" /\ b # "idle" /\ Rank(b) > Rank(a)
                \/ Rank(a) = 9 /\ b = "idle"
           /\ (req'[r].type # req[r].type /\ b # "idle") => a = "initSession"
           /\ (b \in {"vfs", "handler"} /\ a # b) => PipelineSucceeded(r)
           /\ \A e \in {"vfs.request", "transport", "handler"} :
                (Has(r, e)' /\ ~Has(r, e)) => PipelineSucceeded(r)
    ]_vars

C18_Witness ==
  \E r \in Reqs :
    /\ req[r].type = "fs"
    /\ req[r].pc = "Responded"
    /\ Has(r, "transport")
    /\ PipelineLog(r) = FullOrder("fs")


\* C19: once init has resolved, no step of any operation (request handling
\* in any interleaving, getInstance, getConfig, getAuth, getStorage, run,
\* destroy) changes AUTH, STORAGE, VFS, API, CONFIG, PACKAGES, DIRS, PORT or
\* DIST of the instance descriptor, and the descriptor stays frozen.
C19_InstanceImmutableAfterInit ==
  [][boot.outcome = "resolved" =>
       /\ instance' = instance
       /\ "instance" \in frozen'
    ]_vars

C19_Witness ==
  /\ boot.outcome = "resolved"
  /\ server = "destroyed"
  /\ "CONFIG" \in frozen
  /\ instance.AUTH = "mysql"
  /\ instance.API = ApiMethods \cup PackageMethods
  /\ \E r \in Reqs : req[r].pc = "Responded" /\ Has(r, "handler")

\* C20: the boot steps of init start in the order loadConfiguration,
\* loadAPI, loadAuth, loadStorage, loadVFS, http.init, registerPackages,
\* each only after the one before it succeeded; init resolves, with the
\* instance frozen, only after all seven succeeded; when a step rejects,
\* init rejects and no later step ever starts.
C20_BootOrder ==
  LET order == <<"loadConfiguration", "loadAPI", "loadAuth", "loadStorage", "loadVFS",
                 "http.init", "registerPackages">>
      n == Len(boot.started)
  IN  /\ IsPrefix(boot.started, order)
      /\ IsPrefix(boot.done, boot.started)
      /\ boot.outcome = "none" => n = 0
      /\ boot.outcome = "pending" => n = Len(boot.done) + 1
      /\ boot.outcome = "resolved" => boot.done = order
      /\ boot.outcome = "resolved" <=> "instance" \in frozen
      /\ boot.outcome = "rejected" =>
           /\ n >= 1
           /\ boot.failed = boot.started[n]
           /\ boot.done = SubSeq(boot.started, 1, n - 1)
      /\ instance.API # {} => Len(boot.done) >= 2
      /\ instance.AUTH # "null" => Len(boot.done) >= 3
      /\ instance.STORAGE # "null" => Len(boot.done) >= 4
      /\ instance.VFS # <<>> => Len(boot.done) >= 5
      /\ server # "none" => Len(boot.done) >= 6
      /\ "PACKAGES" \in frozen => Len(boot.done) = 7

C20_Witness ==
  /\ boot.outcome = "resolved"
  /\ boot.opts.PORT = JNum(TestPort)
  /\ instance.PORT = TestPort
  /\ instance.DIST = "dist-dev"
  /\ frozen = {"instance", "PACKAGES"}
  /\ server = "created"


\* the groups the group check asks of a request whose table entry, if any,
\* is a single group name
OwnRequired(q) ==
  IF q.type = "fs" THEN {"fs"}
  ELSE IF q.options.method \in DOMAIN ApiGroups /\ ApiGroups[q.options.method].t = "str"
       THEN {ApiGroups[q.options.method].v}
       ELSE {}

\* slot r is touched by the step
Touched(r) == req'[r] # req[r] \/ log'[r] # log[r] \/ resp'[r] # resp[r]

\* C21: with requests in flight together, under every interleaving, a step
\* of one request leaves every other request's context, pipeline and
\* response sink as they were and changes no session but its own caller's;
\* each decision it takes is a function of its own context and its own
\* caller's session; a response is written to the request's own sink, at
\* most one per request, in the form of its own route.
C21_Isolation ==
  [][\A r \in Reqs :
       Touched(r) =>
         LET q == req[r]
             n == req'[r]
         IN  /\ \A s \in Reqs \ {r} : ~Touched(s)
             /\ \A c \in ConcClients : session'[c] # session[c] => c = q.client
             /\ (q.pc = "initSession" /\ n.pc = "checkSession") =>
                  (n.ok <=> session[n.client].username # "")
             /\ q.pc = "authHook" =>
                  (n.ok <=> (IsAdmin(q.client) \/ OwnRequired(q) \subseteq GroupSet(q.client)))
             /\ (q.pc = "getBlacklist" /\ n.pc = "authorized") =>
                  ~Listed(q.username, q.options.path)
             /\ (q.pc = "authorized" /\ n.pc = "checkSession2") =>
                  (n.ok <=> session[q.client].username # "")
             /\ (resp'[r] # resp[r] /\ n.pc # "idle") =>
                  /\ Len(resp'[r]) = 1
                  /\ resp[r] = <<>>
                  /\ n.pc \in {"Responded", "Rejected"}
                  /\ resp'[r][1].kind = "json" <=> (q.http.isfs \/ q.http.isapi)
     ]_vars

\* a request was answered while another caller's request, received before
\* that answer, is still in its pipeline, and the two decisions differ
C21_Witness ==
  \E r, s \in Reqs :
    /\ r # s
    /\ req[r].pc = "Responded" /\ req[r].type = "fs" /\ req[r].client = "c1"
    /\ req[s].pc = "checkApi" /\ req[s].type = "fs" /\ req[s].client = "c2"
    /\ ~req[s].ok
    /\ Len(resp[r]) = 1 /\ resp[s] = <<>>


\* the processes the list children records
ChildSet == {children[i] : i \in DOMAIN children}

\* every forked helper is recorded, at most one was ever forked for a
\* package, and once destroy ran no recorded child is left running and the
\* loaded authenticator's destroy hook was called
ChildrenAccounted ==
  /\ \A p \in DOMAIN procs : p \in ChildSet
  /\ \A p, o \in DOMAIN procs : procs[p].pkg = procs[o].pkg => p = o
  /\ server = "destroyed" =>
       /\ \A p \in ChildSet : procs[p].state \in {"killed", "exited"}
       /\ instance.AUTH # "null" => authenticator = "destroyed"

\* C22: every helper process forked during package registration is
\* recorded in children; destroy kills every recorded child that still runs
\* and calls the destroy hook of the loaded authenticator; a child that
\* exited stays exited and no process is forked once init has resolved, so
\* nothing is restarted.
C22_ChildrenTrackedAndKilled ==
  [][/\ ChildrenAccounted'
     /\ \A p \in DOMAIN procs :
          /\ p \in DOMAIN procs'
          /\ procs[p].state \in {"exited", "killed"} => procs'[p].state = procs[p].state
     /\ boot.outcome = "resolved" => (Len(procs') = Len(procs) /\ children' = children)
    ]_vars

\* destroy ran after one helper had exited by itself: the others were
\* killed, the exited one was not forked again
C22_Witness ==
  /\ server = "destroyed"
  /\ authenticator = "destroyed"
  /\ Len(children) = 3
  /\ \E p, o \in ChildSet : procs[p].state = "exited" /\ procs[o].state = "killed"


C24_StringGroupChecked ==
  (pure.fn = "hasGroup" /\ pure.done) =>
    LET c == pure.http.v
        holds(g) == g \in GroupSet(c) \/ IsAdmin(c)
    IN  /\ pure.groupList.t = "str" => (pure.bool <=> holds(pure.groupList.v))
        /\ (pure.groupList.t = "arr" /\ Len(pure.groupList.v) = 1) =>
             (pure.bool <=> holds(pure.groupList.v[1].v))


\* how often event e was logged for request r
Count(r, e) == Cardinality({i \in 1..Len(log[r]) : log[r][i] = e})

\* the errors a transport operation or an API handler fails with
CallErrors == {"BackendError", "Invalid credentials", "TypeError"}

\* C25: for each request at most one transport operation or API handler is
\* invoked, and at most once; the VFS layer is entered at most once; when
\* the call failed the request ends rejected with one error envelope that
\* carries the call's error and no result, and nothing is called again.
C25_AtMostOneCall ==
  \A r \in Reqs :
    /\ Count(r, "transport") + Count(r, "handler") <= 1
    /\ Count(r, "vfs.request") <= 1
    /\ (req[r].pc = "Rejected" /\ (Has(r, "transport") \/ Has(r, "handler"))) =>
         /\ Len(resp[r]) = 1
         /\ resp[r][1].kind = "json"
         /\ resp[r][1].error \in CallErrors
         /\ resp[r][1].result \notin Results \cup {"userData", "true"}

C25_Witness ==
  \E r \in Reqs :
    /\ req[r].type = "fs" /\ req[r].call.method = <<"write">>
    /\ Count(r, "transport") = 1
    /\ req[r].pc = "Rejected"
    /\ resp[r] = <<Json(403, "BackendError", "false")>>


\* C26 (as claimed): a method adapted from a module of the old API is
\* called like every other handler; when the old method calls back with
\* (null, res) the request is answered with the success envelope carrying
\* res, and when it calls back with an error, with an error envelope.
C26_LegacyAdapted ==
  \A r \in Reqs :
    /\ Has(r, "callback(null, res)") =>
         /\ req[r].pc = "Responded"
         /\ Len(resp[r]) = 1
         /\ resp[r][1].status = 200
         /\ resp[r][1].error = "null"
         /\ resp[r][1].result \in Results
    /\ Has(r, "callback(err)") =>
         /\ req[r].pc = "Rejected"
         /\ Len(resp[r]) = 1
         /\ resp[r][1].error # "null"


\* the check of request r that is running resolves
Resolves(r, pc) == req[r].pc = pc => req[r].ok

\* C27: a stage that does not apply to the request's kind resolves without
\* consulting anything: for an API call the mount check and the package
\* check never reject and getBlacklist is not called, whatever mount the
\* request data name and whatever the caller's blacklist lists; for a VFS
\* call the package check never rejects and getBlacklist is not called;
\* for a package asset the group check and the mount check never reject.
C27_InapplicableStagesPass ==
  \A r \in Reqs :
    /\ req[r].type = "api" =>
         /\ Resolves(r, "checkMount")
         /\ ~Has(r, "checkMountPermission:reject")
         /\ ~Has(r, "getBlacklist")
         /\ ~Has(r, "checkPackagePermission:reject")
    /\ req[r].type = "fs" =>
         /\ ~Has(r, "getBlacklist")
         /\ ~Has(r, "checkPackagePermission:reject")
    /\ req[r].type = "package" =>
         /\ Resolves(r, "checkApi")
         /\ ~Has(r, "checkApiPermission:reject")
         /\ Resolves(r, "checkMount")
         /\ ~Has(r, "checkMountPermission:reject")

\* an API call whose data name a path on a disabled mount, by a caller
\* with a blacklist, went through all stages and reached its handler
C27_Witness ==
  \E r \in Reqs :
    /\ req[r].type = "api" /\ req[r].http.endpoint = <<"settings">>
    /\ "path" \in DOMAIN req[r].http.data
    /\ parseVirtualPath(req[r].http.data["path"]).protocol = <<"off">>
    /\ session[req[r].client].username = "bob"
    /\ Has(r, "checkPackagePermission:resolve")
    /\ Has(r, "handler")
    /\ req[r].pc = "Responded"


\* "://" stands in q at index j
SepAt(q, j) == j + 2 <= Len(q) /\ q[j] = ":" /\ q[j + 1] = "/" /\ q[j + 2] = "/"

\* C28: resolving a path string splits it at its first "://": the protocol
\* is what stands before it, the path what stands after it, so that
\* "home:///a/b.txt" gives protocol home and path /a/b.txt; a string
\* without "://", such as "/a/b.txt", gives the default protocol and the
\* whole string as the path.
C28_SplitAtFirstSeparator ==
  (pure.fn = "parseVirtualPath" /\ pure.done) =>
    LET q == pure.query
        parsed == pure.parsed
    IN  /\ q = <<"home", ":", "/", "/", "/", "a", "/", "b.txt">> =>
             parsed = [protocol |-> <<"home">>, path |-> <<"/", "a", "/", "b.txt">>]
        /\ q = <<"/", "a", "/", "b.txt">> =>
             parsed = [protocol |-> DefaultProtocol, path |-> q]
        /\ IF \E j \in 1..Len(q) : SepAt(q, j)
           THEN /\ q = parsed.protocol \o <<":", "/", "/">> \o parsed.path
                /\ \A j \in 1..Len(parsed.protocol) : ~SepAt(q, j)
           ELSE parsed = [protocol |-> DefaultProtocol, path |-> q]

\* a string in which "://" stands twice was split at the first
C28_Witness ==
  /\ pure.fn = "parseVirtualPath" /\ pure.done
  /\ pure.parsed.protocol = <<"osjs">>
  /\ \E j \in 1..Len(pure.parsed.path) : SepAt(pure.parsed.path, j)


\* the path of the directory that request context q names
StorePath(q) == parseVirtualPath(ArgsQuery(q.call.args)).path

DestMount(r) ==
  LET parsed == parseVirtualPath(req[r].options.args["dest"])
  IN  IF parsed.protocol \in DOMAIN Mounts THEN Mounts[parsed.protocol] ELSE Undefined

\* C30 (as claimed): a copy or move whose destination lies on a read-only
\* mount never reaches the VFS layer or a transport, also when its source
\* lies on a writable mount; when the request gets as far as the mount
\* check, that check rejects it with Access Denied.
C30_ReadOnlyDestinationRejected ==
  \A r \in Reqs :
    (/\ req[r].type = "fs"
     /\ req[r].options.method \in {<<"copy">>, <<"move">>}
     /\ "dest" \in DOMAIN req[r].options.args
     /\ DestMount(r).t = "object" /\ DestMount(r).ro = JBool(TRUE)) =>
      /\ ~Has(r, "vfs.request") /\ ~Has(r, "transport")
      /\ req[r].pc # "Responded"
      /\ Has(r, "checkMountPermission") => MountCheckRejects(r)


\* C31 (as claimed): when the PHP Authenticator::checkPermission requires a
\* non-empty set of groups, a caller without admin is allowed exactly when
\* the session groups include every required group.
C31_PhpGroupsExact ==
  (pure.fn = "phpCheckPermission" /\ pure.done) =>
    LET c == pure.http.v
        required == IF pure.type = "fs" THEN {"fs"} ELSE RequiredApi(pure.endpoint)
    IN  (required # {} /\ ~IsAdmin(c)) => (pure.bool <=> required \subseteq GroupSet(c))


\* the authorization wrapper answered the request with a 403 rejection
WrapperRejected(r) ==
  \/ Has(r, "checkPermission:throw")
  \/ \E e \in CheckRejects : Has(r, e)

\* C32 (as claimed): at most one response is written for a request, and
\* once the authorization wrapper has sent its 403 rejection, be it for a
\* rejected check or for a permission call that threw, neither the VFS
\* layer nor a transport nor an API handler is invoked and no file is served.
C32_OneResponse ==
  \A r \in Reqs :
    /\ Len(resp[r]) <= 1
    /\ WrapperRejected(r) =>
         /\ ~Has(r, "vfs.request") /\ ~Has(r, "transport")
         /\ ~Has(r, "handler") /\ ~Has(r, "serve")


CheckStarts == {"checkApiPermission", "checkMountPermission", "checkPackagePermission"}

\* the authorization of request r is over and nothing rejected it
Authorized(r) ==
  /\ req[r].pc \notin {"checkSession", "authHook", "checkApi", "checkMount", "getBlacklist"}
  /\ ~WrapperRejected(r)
  /\ req[r].hook.settled # "reject"

\* C33: when the authenticator's hook resolved with a defined falsy value
\* the permission check succeeds and none of the group, mount and blacklist
\* checks is started; when it resolved with undefined or a truthy value the
\* three checks run in their order, each after the one before it resolved,
\* and all three have run once the request is authorized; when it rejected,
\* no check is started and the request is rejected with the hook's reason.
C33_HookDecides ==
  \A r \in Reqs :
    LET hook == req[r].hook
    IN  /\ (hook.settled = "resolve" /\ hook.v # Undefined /\ ~Truthy(hook.v)) =>
             /\ \A e \in CheckStarts : ~Has(r, e)
             /\ Authorized(r)
        /\ (hook.settled = "resolve" /\ (hook.v = Undefined \/ Truthy(hook.v))) =>
             /\ Has(r, "checkApiPermission")
             /\ Has(r, "checkMountPermission") => Has(r, "checkApiPermission:resolve")
             /\ Has(r, "checkPackagePermission") => Has(r, "checkMountPermission:resolve")
             /\ Authorized(r) => \A e \in CheckStarts : Has(r, e)
        /\ hook.settled = "reject" =>
             /\ \A e \in CheckStarts : ~Has(r, e)
             /\ req[r].pc = "Rejected"
             /\ resp[r] = <<rejectResponse(req[r], "Hook denied")>>
             /\ ~Has(r, "vfs.request") /\ ~Has(r, "handler") /\ ~Has(r, "serve")

\* a caller without the group of the method is served because the hook
\* resolved false, and another request's hook resolved with nothing
C33_Witness ==
  \E r \in Reqs :
    /\ req[r].hook = [settled |-> "resolve", v |-> JBool(FALSE)]
    /\ req[r].type = "api"
    /\ ~checkApiPermission(req[r].client, "api", req[r].options)
    /\ req[r].pc = "Responded"


\* C34: package authorization fails closed. When the blacklist query
\* rejects, the package check rejects with 'Access Denied!', the request is
\* answered 403 and the asset is not served; when the query resolves with
\* an empty list or with no list at all, the package check succeeds.
C34_BlacklistFailsClosed ==
  \A r \in Reqs :
    req[r].type = "package" =>
      /\ Has(r, "getBlacklist:reject") =>
           /\ Has(r, "checkPackagePermission:reject")
           /\ req[r].pc = "Rejected"
           /\ resp[r] = <<ErrorPage(403, "Access Denied!")>>
           /\ ~Has(r, "serve") /\ ~Has(r, "recheckSession")
      /\ (Has(r, "getBlacklist:resolve") /\ StoredList(req[r].username) = <<>>) =>
           /\ Has(r, "checkPackagePermission:resolve")
           /\ ~Has(r, "checkPackagePermission:reject")

\* the query failed for a caller whose list does not name the package
C34_Witness ==
  \E r \in Reqs :
    /\ req[r].type = "package"
    /\ Has(r, "getBlacklist:reject")
    /\ ~Listed(req[r].username, req[r].options.path)
    /\ req[r].pc = "Rejected"

\* a caller for whom no list is stored is served the asset
C34_WitnessMissing ==
  \E r \in Reqs :
    /\ req[r].type = "package"
    /\ req[r].username = "guest"
    /\ Has(r, "getBlacklist:resolve")
    /\ Has(r, "serve")


\* C35: for the API call login neither checkSession nor any part of
\* checkPermission (hook, group, mount, blacklist check) is invoked, and the
\* login handler is called for every caller, also when the method-to-group
\* table lists a group for login that the caller does not hold.
C35_LoginUnguarded ==
  \A r \in Reqs :
    IsLoginCall(r) =>
      /\ PipelineLog(r) = <<>>
      /\ req[r].hook = NoHook
      /\ req[r].pc \in {"authorized", "handler", "Responded", "Rejected"}
      /\ req[r].pc # "authorized" => Has(r, "handler")
      /\ req[r].pc = "Rejected" =>
           resp[r] \in {<<Json(403, e, "false")>> : e \in CallErrors}

\* the table lists admin for login; a caller without a session logged in as
\* a user who is not in that group
C35_Witness ==
  \E r \in Reqs :
    /\ IsLoginCall(r)
    /\ <<"login">> \in DOMAIN ApiGroupTable
    /\ req[r].http.data["username"] = "alice"
    /\ Has(r, "handler")
    /\ req[r].pc = "Responded"


\* C36 (as claimed): init settles. Whenever no step of the chain is running
\* any more, init has resolved, with the frozen instance, or has rejected;
\* when a step failed (settings.json or packages.json unreadable or not
\* valid JSON, a module failing to load, a directory unreadable) init has
\* rejected.
C36_InitSettles ==
  /\ boot.outcome \notin {"none", "pending"} => boot.outcome \in {"resolved", "rejected"}
  /\ boot.outcome = "resolved" => "instance" \in frozen
  /\ boot.cause # "" => boot.outcome = "rejected" /\ boot.failed = InitChain[boot.pc]


\* the DIST init was asked for, the default one otherwise
SelectedDist == IF boot.opts.DIST.t # "undefined" THEN boot.opts.DIST.v ELSE "dist"

\* C37 (as claimed): when init has resolved, AUTH and STORAGE are the modules
\* the configuration names and PACKAGES is the manifest's list for the
\* selected DIST, whether or not getInstance() froze the instance while
\* the boot was in progress.
C37_ResolvedInstanceComplete ==
  boot.outcome = "resolved" =>
    /\ instance.AUTH = SettingsJson.http.authenticator
    /\ instance.STORAGE = SettingsJson.http.storage
    /\ instance.PACKAGES = PackagesJson(SelectedDist)


\* the step changes request r
Moves(r) == req'[r] # req[r]

\* C38: a gated package asset is served only after checkSession succeeded
\* twice for the request, before the permission and blacklist checks and
\* again after them; when the caller's session has lost its username by
\* the time the blacklist query has settled (a logout of the same caller
\* handled meanwhile), the second checkSession fails, the request is
\* answered with status 403 and the file is not served.
C38_SessionCheckedTwice ==
  /\ [](\A r \in Reqs :
          (req[r].type = "package" /\ Has(r, "serve")) =>
            /\ Has(r, "checkSession:resolve")
            /\ Has(r, "getBlacklist:resolve")
            /\ Has(r, "recheckSession")
            /\ req[r].ok
            /\ resp[r] = <<File(req[r].http.path)>>)
  /\ [][\A r \in Reqs :
          /\ (/\ req[r].pc = "authorized" /\ req[r].type = "package"
              /\ ~HasUsername(req[r].client) /\ Moves(r)) =>
               (req'[r].pc = "checkSession2" /\ ~req'[r].ok)
          /\ (req[r].pc = "checkSession2" /\ ~req[r].ok /\ Moves(r)) =>
               /\ req'[r].pc = "Rejected"
               /\ resp'[r] = <<ErrorPage(403, "Access denied")>>
               /\ log'[r] = log[r]
     ]_vars

\* the caller logged out while the blacklist query of the package request
\* was pending: the blacklist let the request through and the second
\* session check denied it
C38_Witness ==
  \E r \in Reqs :
    /\ req[r].type = "package"
    /\ Has(r, "getBlacklist:resolve") /\ Has(r, "checkPackagePermission:resolve")
    /\ Has(r, "recheckSession")
    /\ req[r].pc = "Rejected"
    /\ resp[r] = <<ErrorPage(403, "Access denied")>>
    /\ ~Has(r, "serve")


\* C39: the login of the mysql authenticator settles once and only once.
\* It resolves, with the id, username and name of the row, only when the
\* user has a row and the password matches the stored hash; it rejects
\* with 'Invalid credentials' when there is no row or the password does not
\* match; it rejects with the underlying error when the query or the hash
\* comparison fails.
C39_LoginSettlesOnce ==
  pure.fn = "login" =>
    LET l == pure.login
        u == l.data.username
        known == u \in UserNames
        match == known /\ l.data.password = Users[u].password
    IN  /\ Len(l.settled) <= 1
        /\ l.pc = "done" <=> Len(l.settled) = 1
        /\ l.pc = "done" =>
             l.settled[1] =
               IF l.queryFailed THEN Rejected("QueryError")
               ELSE IF ~known THEN Rejected("Invalid credentials")
               ELSE IF l.compareFailed THEN Rejected("CompareError")
               ELSE IF ~match THEN Rejected("Invalid credentials")
               ELSE Resolved(parseInt(Row(u).id), u, u)

\* bob, whose stored hash has the $2y prefix and whose id comes as a string,
\* logged in with the right password
C39_Witness ==
  /\ pure.fn = "login"
  /\ pure.login.data = [username |-> "bob", password |-> "pw"]
  /\ pure.login.settled = <<Resolved(3, "bob", "bob")>>

====
